---- MODULE Spec2Model ----
(***************************************************************************)
(* Model of the STET payment-initiation engine, Stet140PaymentBrowser, of  *)
(* src/data/stet_pis_browser.py.                                           *)
(*                                                                         *)
(* The engine is single-threaded and synchronous.  An entry point is run   *)
(* by the operator that translates it, on a machine record m that carries  *)
(* the engine's state (Session State, the payment, the current page and    *)
(* the new_token attribute), the answers received so far in this call and  *)
(* a log of what the call did.  A request to the bank or to the token      *)
(* endpoint consumes the next answer; when none is left, the run stops     *)
(* with ctl = "need" and the action Respond supplies one answer.  The      *)
(* effects of a call are committed in the step that ends it.               *)
(***************************************************************************)
EXTENDS Integers, Sequences, FiniteSets, TLC

VARIABLES
    cfg,        \* the ClassVar configuration of the browser class (constant)
    st,         \* Session State (PaymentBrowserState), self.state
    pay,        \* the Payment object, self.payment
    page,       \* the page the browser is on, self.page
    new_token,  \* the instance attribute new_token
    bank,       \* the bank's view of the payment: status and creations
    now,        \* the clock, datetime.utcnow()
    call,       \* the entry point being executed and the answers it got
    last        \* the call that ended in the step to this state, if one did

vars == <<cfg, st, pay, page, new_token, bank, now, call, last>>

-----------------------------------------------------------------------------
(* Bounds of the model.                                                    *)

MaxTime == 3        \* the clock runs from 0 to MaxTime
TimeoutD == 2       \* the non-null failure-callback detection timeout
TokenTTL == 2       \* lifetime of a token that the bank mints non-expired
MaxPay == 2         \* payment resources the bank creates at most
MaxInstr == 2       \* instructions of a payment, at most

-----------------------------------------------------------------------------
(* Values.                                                                 *)

NONE == "None"      \* Python's None, for string-valued fields
NoTime == -1        \* Python's None, for datetime-valued fields
NoId == 0           \* an empty payment identifier

OK == [type |-> "ok", code |-> NONE, msg |-> NONE]
Exc(t, c, s) == [type |-> t, code |-> c, msg |-> s]

\* PaymentRedirect.SKIPPED_VALUE and the callback URLs a caller can pass as
\* auth_uri; a URL is given by the query parameters the engine looks at.
SKIPPED == [code |-> NONE, kind |-> "skipped", factor |-> NONE,
            error |-> NONE, error_code |-> NONE, error_description |-> NONE]
NoCallback == [code |-> NONE, kind |-> "none", factor |-> NONE,
               error |-> NONE, error_code |-> NONE, error_description |-> NONE]
Url(c, f, e, ec, d) == [code |-> c, kind |-> "url", factor |-> f,
                        error |-> e, error_code |-> ec, error_description |-> d]

\* The library default of PaymentValidationError() built without a code.
LibDefaultCode == "LIB_DEFAULT"

Interactions == {"PaymentRedirect", "PaymentConfirmationRequired",
                 "PaymentSameInteraction", "PaymentInteractionSkipped"}

-----------------------------------------------------------------------------
(* The configuration of the browser and its Session State.                *)

\* The class attributes of Stet140PaymentBrowser, with the timeouts counted
\* in ticks of the clock.
DefaultConfig ==
    [PRE_STEP_TYPE |-> "OAUTH_CLIENT",
     UNSAFE_CONFIRMATIONS |-> FALSE,
     UNSAFE_URL_ERROR_DETECTION |-> FALSE,
     VALIDATION_REDIRECT_FLOW |-> "SIMPLE",
     VALIDATION_REDIRECT_WITH_PKCE |-> FALSE,
     VALIDATION_MAY_HAVE_AUTOMATIC_CONFIRMATION |-> FALSE,
     VALIDATION_CONFIRMATION_STATUS_REQUIRED |-> TRUE,
     VALIDATION_FAILURE_CALLBACK_DETECTION_TIMEOUT |-> TimeoutD,
     CANCELLATION_REDIRECT_FLOW |-> "SIMPLE_WITHOUT_CONFIRMATION",
     CANCELLATION_REDIRECT_WITH_PKCE |-> FALSE,
     CANCELLATION_FAILURE_CALLBACK_DETECTION_TIMEOUT |-> TimeoutD,
     RAISE_PAYMENTACCESSEXPIRED_ON_404 |-> FALSE]

\* PaymentBrowserState as a new instance holds it
InitialState ==
    [oauth_token |-> NONE,
     oauth_token_type |-> NONE,
     oauth_token_expires_at |-> NoTime,
     oauth_refresh_token |-> NONE,
     payment_nonce |-> NONE,
     validation_approach |-> "NONE",
     pkce_verifier |-> NONE,
     oauth_authorisation_code |-> NONE,
     oauth_token_to_be_requested |-> FALSE,
     psu_auth_factor |-> NONE,
     validation_confirmation_required |-> FALSE,
     validation_confirmed |-> FALSE,
     first_failure_at |-> NoTime,
     first_failure_validation_data |-> [code |-> NONE, msg |-> NONE],
     first_failure_cancellation_data |-> [code |-> NONE, msg |-> NONE],
     payment_creation_date |-> NoTime,
     payment_information_id |-> NoId,
     payment_instruction_ids |-> <<>>]

-----------------------------------------------------------------------------
(* The machine record and its control.                                     *)

Running(m) == m.ctl = "run"

Raise(m, e) ==
    IF Running(m) THEN [m EXCEPT !.ctl = "exc", !.exc = e] ELSE m

\* except <types>: whether the block that produced m ended by one of them
Caught(m, types) == m.ctl = "exc" /\ m.exc.type \in types

Resume(m) == [m EXCEPT !.ctl = "run", !.exc = OK]

\* v bound to a name in F, and the rest F of a block that goes on after m
\* unless m ended by an exception
Let(v, F(_)) == F(v)
Then(m, F(_)) == IF Running(m) THEN F(m) ELSE m

\* An entry of the log of a call: a request sent (token, status, create,
\* confirm, cancel, refresh) with the grant or the bearer token it was sent
\* with, or a step the call took (resume, retry, reset_validation).
\* A request is logged with the HTTP status of its answer, the lifetime of
\* the token when the answer grants one, and new_token as it was when the
\* answer came.
Ev(kind, arg) ==
    [kind |-> kind, arg |-> arg, http |-> 0, ttl |-> NoTime, fresh |-> FALSE]

Note(m, ev) == IF Running(m) THEN [m EXCEPT !.log = Append(@, ev)] ELSE m

\* One HTTP round trip: the request is logged and the next answer of the
\* call is consumed; without an answer left the run stops and asks for one.
Send(m, req) ==
    IF ~Running(m) THEN m
    ELSE IF m.idx < Len(m.hist)
         THEN [m EXCEPT !.idx = @ + 1,
                        !.log = Append(@, [req EXCEPT
                                              !.http = m.hist[m.idx + 1].http,
                                              !.ttl = m.hist[m.idx + 1].ttl,
                                              !.fresh = m.new_token]),
                        !.resp = m.hist[m.idx + 1]]
         ELSE [m EXCEPT !.ctl = "need", !.pend = req]

\* raise_for_status: a 4xx answer with a JSON document is the StetException
\* of the error page; 5xx is BrowserUnavailable; otherwise, as the library
\* does, 404 is HTTPNotFound and any other 4xx a ClientError.  Each carries
\* the response.
raise_for_status(m) ==
    IF ~Running(m) THEN m
    ELSE IF m.resp.http >= 400 /\ m.resp.http < 500 /\ m.resp.json
         THEN Raise(m, Exc("StetException", ToString(m.resp.http), NONE))
    ELSE IF m.resp.http >= 500 THEN Raise(m, Exc("BrowserUnavailable", NONE, NONE))
    ELSE IF m.resp.http = 404 THEN Raise(m, Exc("HTTPNotFound", "404", NONE))
    ELSE IF m.resp.http >= 400
         THEN Raise(m, Exc("ClientError", ToString(m.resp.http), NONE))
    ELSE m

\* StetException, of the utils of this module: a ClientError, as it carries
\* the response the handlers of ClientError read.
StetErrors == {"StetException"}

\* except ClientError: HTTPNotFound is a ClientError in the library.
ClientErrors == {"ClientError", "HTTPNotFound"} \cup StetErrors

-----------------------------------------------------------------------------
(* Retry-on-stale-token predicate.                                         *)

should_retry_with_new_token_401(m) ==
    /\ m.exc.code \in {"401", "403"}
    /\ ~m.new_token
    /\ cfg.PRE_STEP_TYPE # "NONE"

should_retry_never(m) == FALSE

should_retry_with_new_token(m) ==
    /\ m.exc.code = "403"
    /\ ~m.new_token
    /\ cfg.PRE_STEP_TYPE # "NONE"

-----------------------------------------------------------------------------
(* Token manager.                                                          *)

\* request_oauth_token: one POST to the token endpoint; on success the four
\* token fields are replaced and new_token is set.
request_oauth_token(m, grant) ==
    Then(raise_for_status(Send(m, Ev("token", grant))), LAMBDA m1 :
        [m1 EXCEPT
            !.st.oauth_token = grant,
            !.st.oauth_token_type = "Bearer",
            !.st.oauth_token_expires_at =
                IF m1.resp.ttl = NoTime THEN NoTime ELSE now + m1.resp.ttl,
            !.st.oauth_refresh_token = m1.resp.rt,
            !.page = [kind |-> "token", status |-> NONE, reason |-> NONE],
            !.new_token = TRUE])

\* PaymentBrowser.is_token_expired, of the woob library
is_token_expired(expires_at) == expires_at <= now

refresh_oauth_token_if_possible(m) ==
    IF ~Running(m) THEN m
    ELSE IF m.st.oauth_refresh_token = NONE
         THEN [m EXCEPT !.st.oauth_token = NONE, !.ret = FALSE]
         ELSE [request_oauth_token([m EXCEPT !.st.oauth_token = NONE],
                                   "refresh_token") EXCEPT !.ret = TRUE]

check_oauth_token_always_refreshes(m) ==
    IF ~Running(m) THEN m
    ELSE IF m.st.oauth_token = NONE THEN m
    ELSE Then(refresh_oauth_token_if_possible(m), LAMBDA m1 :
             [m1 EXCEPT !.new_token = m1.ret])

check_oauth_token(m) ==
    IF ~Running(m) THEN m
    ELSE IF m.st.oauth_token = NONE THEN m
    ELSE IF \/ m.st.oauth_token_expires_at = NoTime
            \/ ~is_token_expired(m.st.oauth_token_expires_at)
         THEN m
    ELSE Then(refresh_oauth_token_if_possible(m), LAMBDA m1 :
             [m1 EXCEPT !.new_token = m1.ret])

reset_oauth_token(m) ==
    IF ~Running(m) THEN m
    ELSE [m EXCEPT !.st.oauth_token = NONE,
                   !.st.oauth_token_type = NONE,
                   !.st.oauth_refresh_token = NONE,
                   !.st.oauth_token_expires_at = NoTime]

request_pre_step_client_token(m) == request_oauth_token(m, "client_credentials")

check_pre_step(m) ==
    Then(check_oauth_token(m), LAMBDA m1 :
        IF m1.st.oauth_token # NONE THEN m1
        ELSE IF cfg.PRE_STEP_TYPE = "NONE" THEN m1
        ELSE request_pre_step_client_token(m1))

reset_validation_keeps_flags(m) ==
    IF ~Running(m) THEN m
    ELSE Note([m EXCEPT !.st.payment_nonce = NONE,
                        !.st.validation_approach = "NONE",
                        !.st.pkce_verifier = NONE,
                        !.st.oauth_authorisation_code = NONE,
                        !.st.psu_auth_factor = NONE],
              Ev("reset_validation", NONE))

reset_validation(m) ==
    IF ~Running(m) THEN m
    ELSE Note([m EXCEPT !.st.payment_nonce = NONE,
                        !.st.validation_approach = "NONE",
                        !.st.pkce_verifier = NONE,
                        !.st.oauth_authorisation_code = NONE,
                        !.st.oauth_token_to_be_requested = FALSE,
                        !.st.psu_auth_factor = NONE,
                        !.st.validation_confirmation_required = FALSE,
                        !.st.validation_confirmed = FALSE],
              Ev("reset_validation", NONE))

-----------------------------------------------------------------------------
(* Status decoder.                                                         *)

VALIDATION_ERROR_CODE_MAPPING ==
    [r \in {"AC01", "AC04", "AC06", "AG01", "AM18", "CH03", "CUST", "FF01",
            "FRAD", "DS02", "MS03", "NOAS", "RR01", "RR03", "RR04"} |->
        CASE r = "AC01" -> <<"INVALID_PAYER",
                 "The provided payer account is either invalid or does not exist.">>
          [] r = "AC04" -> <<"INVALID_PAYER", "The provided payer account is closed.">>
          [] r = "AC06" -> <<"INVALID_PAYER", "The provided payer account is blocked.">>
          [] r = "AG01" -> <<"INVALID_PAYER",
                 "The payment is forbidden on this type of account.">>
          [] r = "AM18" -> <<"OTHER",
                 "The number of instructions exceeds the bank acceptance limit.">>
          [] r = "CH03" -> <<"INVALID_DATE",
                 "The requested execution date is too far in the future.">>
          [] r = "CUST" -> <<"CANCELLED", "The payer has cancelled the payment.">>
          [] r = "FF01" -> <<"OTHER",
                 "The communication with the bank failed unexpectedly.">>
          [] r = "FRAD" -> <<"REGULATORY_REASON",
                 "The payment was rejected for being detected as fraudulent.">>
          [] r = "DS02" -> <<"CANCELLED", "The payer has cancelled the payment.">>
          [] r = "MS03" -> <<"NONE", "The payment was denied by the bank.">>
          [] r = "NOAS" -> <<"EXPIRED",
                 "The payer has neither accepted nor rejected the payment request.">>
          [] r = "RR01" -> <<"INVALID_PAYER", "The payer could not identify themselves.">>
          [] r = "RR03" -> <<"INVALID_BENEFICIARY",
                 "Missing information about the beneficiary name and/or address.">>
          [] r = "RR04" -> <<"REGULATORY_REASON",
                 "The payment has been rejected for a regulatory reason.">>]

PageOf(kind, resp) == [kind |-> kind, status |-> resp.status, reason |-> resp.reason]

get_payment_status_data_no_reason(m) ==
    IF ~Running(m) THEN m
    ELSE IF m.page.kind \in {"confirmation", "payment"}
         THEN [m EXCEPT !.data = [status |-> m.page.status, reason |-> NONE]]
    ELSE Then(check_pre_step(m), LAMBDA m1 :
         Then(raise_for_status(Send(m1, Ev("status", m1.st.oauth_token))), LAMBDA m2 :
             [m2 EXCEPT
                 !.page = PageOf("payment", m2.resp),
                 !.data = [status |-> m2.resp.status, reason |-> NONE]]))

\* get_payment_status_data: the status data of the current page when it is a
\* page of the payment, of a fresh GET of the payment otherwise.
get_payment_status_data(m) ==
    IF ~Running(m) THEN m
    ELSE IF m.page.kind \in {"confirmation", "payment"}
         THEN [m EXCEPT !.data = [status |-> m.page.status, reason |-> m.page.reason]]
    ELSE Then(check_pre_step(m), LAMBDA m1 :
         Then(raise_for_status(Send(m1, Ev("status", m1.st.oauth_token))), LAMBDA m2 :
             [m2 EXCEPT
                 !.page = PageOf("payment", m2.resp),
                 !.data = [status |-> m2.resp.status, reason |-> m2.resp.reason]]))

check_current_validation_status_any_flow(m) ==
    Then(get_payment_status_data(m), LAMBDA m1 :
        IF m1.data.status \in {"RJCT", "CANC"}
             THEN Let(Note(m1, Ev("rejected", m1.data.reason)), LAMBDA m2 :
                  IF m1.data.reason = NONE
                  THEN Raise(m2, Exc("PaymentValidationError", LibDefaultCode, ""))
                  ELSE IF m1.data.reason \in DOMAIN VALIDATION_ERROR_CODE_MAPPING
                  THEN Raise(m2, Exc("PaymentValidationError",
                                     VALIDATION_ERROR_CODE_MAPPING[m1.data.reason][1],
                                     VALIDATION_ERROR_CODE_MAPPING[m1.data.reason][2]))
                  ELSE Raise(m2, Exc("PaymentValidationError", "OTHER", "Unknown error")))
        ELSE IF m1.data.status \in {"RCVD", "ACTC"} THEN m1
        ELSE IF m1.data.status = "ACCO"
             THEN Raise(m1, Exc("PaymentConfirmationRequired", NONE, NONE))
        ELSE IF m1.data.status \in {"ACCP", "ACSP"}
             THEN IF cfg.VALIDATION_MAY_HAVE_AUTOMATIC_CONFIRMATION
                  THEN Raise(m1, Exc("PaymentInteractionSkipped", NONE, NONE))
                  ELSE IF m1.st.validation_confirmed
                  THEN Raise(m1, Exc("PaymentInteractionSkipped", NONE, NONE))
                  ELSE Raise(m1, Exc("PaymentConfirmationRequired", NONE, NONE))
        ELSE Raise(m1, Exc("PaymentInteractionSkipped", NONE, NONE)))

\* check_current_validation_status: returns (still running) while the PSU or
\* a callback is awaited, raises otherwise.
check_current_validation_status(m) ==
    Then(get_payment_status_data(m), LAMBDA m1 :
        IF m1.data.status \in {"RJCT", "CANC"}
             THEN Let(Note(m1, Ev("rejected", m1.data.reason)), LAMBDA m2 :
                  IF m1.data.reason = NONE
                  THEN Raise(m2, Exc("PaymentValidationError", LibDefaultCode, ""))
                  ELSE IF m1.data.reason \in DOMAIN VALIDATION_ERROR_CODE_MAPPING
                  THEN Raise(m2, Exc("PaymentValidationError",
                                     VALIDATION_ERROR_CODE_MAPPING[m1.data.reason][1],
                                     VALIDATION_ERROR_CODE_MAPPING[m1.data.reason][2]))
                  ELSE Raise(m2, Exc("PaymentValidationError", "OTHER", "Unknown error")))
        ELSE IF m1.data.status \in {"RCVD", "ACTC"} THEN m1
        ELSE IF m1.data.status = "ACCO"
             THEN Raise(m1, Exc("PaymentConfirmationRequired", NONE, NONE))
        ELSE IF m1.data.status \in {"ACCP", "ACSP"}
             THEN IF cfg.VALIDATION_MAY_HAVE_AUTOMATIC_CONFIRMATION
                  THEN Raise(m1, Exc("PaymentInteractionSkipped", NONE, NONE))
                  ELSE IF m1.st.validation_confirmed
                  THEN Raise(m1, Exc("PaymentInteractionSkipped", NONE, NONE))
                  ELSE IF /\ m1.st.validation_approach = "REDIRECT"
                          /\ cfg.VALIDATION_REDIRECT_FLOW = "SIMPLE"
                  THEN Raise(m1, Exc("PaymentConfirmationRequired", NONE, NONE))
                  ELSE IF /\ m1.st.validation_approach = "REDIRECT"
                          /\ cfg.VALIDATION_REDIRECT_FLOW = "SIMPLE_WITHOUT_CONFIRMATION"
                  THEN Raise(m1, Exc("PaymentInteractionSkipped", NONE, NONE))
                  ELSE m1
        ELSE Raise(m1, Exc("PaymentInteractionSkipped", NONE, NONE)))

-----------------------------------------------------------------------------
(* Validation state machine.                                               *)

OAuthFlows == {"OAUTH_AUTHORISATION_CODE",
               "OAUTH_AUTHORISATION_CODE_WITHOUT_CONFIRMATION"}

\* request_validation_token: the token request of the grant
\* authorization_code, sent with the given authorisation code.
request_validation_token(m, code) ==
    request_oauth_token(Note(m, Ev("code", code)), "authorization_code")

\* confirm_payment_validation and confirm_payment_oauth_validation: one POST
\* to a confirmation endpoint, whose answer is a page of the payment.
confirm_payment_validation(m, psu_auth_factor) ==
    Then(raise_for_status(Send(Note(m, Ev("factor", psu_auth_factor)),
                               Ev("confirm", m.st.oauth_token))), LAMBDA m1 :
        [m1 EXCEPT !.page = PageOf("confirmation", m1.resp)])

confirm_payment_oauth_validation(m) ==
    Then(raise_for_status(Send(m, Ev("confirm", m.st.oauth_token))), LAMBDA m1 :
        [m1 EXCEPT !.page = PageOf("confirmation", m1.resp)])

\* params.get("error") or params.get("error_code"), of both detectors
CallbackErrorCode(callback_url) ==
    IF callback_url.error \notin {NONE, ""} THEN callback_url.error
    ELSE callback_url.error_code

detect_validation_callback_error_never(m, callback_url) == m

detect_validation_callback_error(m, callback_url) ==
    IF ~Running(m) THEN m
    ELSE IF CallbackErrorCode(callback_url) = NONE THEN m
    ELSE Raise(m, Exc("PaymentValidationError", LibDefaultCode,
                      IF callback_url.error_description = NONE
                      THEN "" ELSE callback_url.error_description))

is_validation_redirect_skippable ==
    cfg.VALIDATION_REDIRECT_FLOW \in {"SIMPLE", "SIMPLE_WITHOUT_CONFIRMATION"}

ConfirmationRequired(m) == Raise(m, Exc("PaymentConfirmationRequired", NONE, NONE))
SameInteraction(m) == Raise(m, Exc("PaymentSameInteraction", NONE, NONE))

resume_redirect_confirm_from_callback(m) ==
    IF m.conf.confirm = "false"
    THEN Raise(m, Exc("PaymentValidationError", "CONFIRMATION_REFUSED", ""))
    ELSE
    Then(IF cfg.VALIDATION_REDIRECT_FLOW \in OAuthFlows
         THEN reset_oauth_token(
                  request_validation_token(
                      [m EXCEPT !.st.oauth_token_to_be_requested = FALSE],
                      m.conf.auth_uri.code))
         ELSE confirm_payment_validation(m, m.conf.auth_uri.factor),
         LAMBDA done : [done EXCEPT !.st.validation_confirmed = TRUE])

resume_redirect_confirm_unnamed_refusal(m) ==
    IF m.conf.confirm = "false"
    THEN Raise(m, Exc("PaymentValidationError", "OTHER", ""))
    ELSE [m EXCEPT !.st.validation_confirmed = TRUE]

\* resume_payment_validation_redirect, the branch taken when the caller set
\* confirm (lines 1547-1598)
resume_redirect_confirm(m) ==
    IF m.conf.confirm = "false"
    THEN Raise(m, Exc("PaymentValidationError", "CONFIRMATION_REFUSED", ""))
    ELSE
    Then(IF cfg.VALIDATION_REDIRECT_FLOW \in OAuthFlows
         THEN Let(IF /\ m.st.oauth_token_to_be_requested
                     /\ m.st.oauth_authorisation_code # NONE
                  THEN request_validation_token(
                           [m EXCEPT !.st.oauth_token_to_be_requested = FALSE],
                           m.st.oauth_authorisation_code)
                  ELSE m,
                  LAMBDA m1 :
                      reset_oauth_token(
                          IF cfg.VALIDATION_REDIRECT_FLOW = "OAUTH_AUTHORISATION_CODE"
                          THEN confirm_payment_oauth_validation(m1)
                          ELSE m1))
         ELSE confirm_payment_validation(m, m.st.psu_auth_factor),
         LAMBDA done : [done EXCEPT !.st.validation_confirmed = TRUE])

resume_redirect_callback_reports_errors(m, confirmation_required) ==
    IF CallbackErrorCode(m.conf.auth_uri) # NONE
    THEN Raise(m, Exc("PaymentValidationError", LibDefaultCode, ""))
    ELSE SameInteraction(m)

\* resume_payment_validation_redirect, the branches that read the callback
\* (lines 1600-1763)
resume_redirect_callback(m, confirmation_required) ==
    LET callback_url == m.conf.auth_uri
        flow == cfg.VALIDATION_REDIRECT_FLOW
        confirmed(x) == IF Running(x) THEN [x EXCEPT !.st.validation_confirmed = TRUE]
                        ELSE x
    IN
    IF callback_url.kind = "none" THEN SameInteraction(m)
    ELSE IF flow \in OAuthFlows
    THEN IF callback_url.kind = "skipped" THEN SameInteraction(m)
         ELSE IF callback_url.code = NONE THEN SameInteraction(m)
         ELSE
         LET m1 == [m EXCEPT !.st.oauth_authorisation_code = callback_url.code]
         IN  IF /\ flow = "OAUTH_AUTHORISATION_CODE_WITHOUT_CONFIRMATION"
                /\ cfg.UNSAFE_CONFIRMATIONS
             THEN ConfirmationRequired(
                      [m1 EXCEPT !.st.oauth_token_to_be_requested = TRUE,
                                 !.st.validation_confirmation_required = TRUE])
             ELSE
             Then(request_validation_token(m1, callback_url.code), LAMBDA m2 :
                 IF flow = "OAUTH_AUTHORISATION_CODE"
                 THEN ConfirmationRequired(
                          [m2 EXCEPT !.st.validation_confirmation_required = TRUE])
                 ELSE confirmed(reset_oauth_token(m2)))
    ELSE IF flow = "SIMPLE_WITH_AUTH_FACTOR"
    THEN IF callback_url.kind = "skipped" THEN SameInteraction(m)
         ELSE IF callback_url.factor = NONE THEN SameInteraction(m)
         ELSE IF cfg.UNSAFE_CONFIRMATIONS
         THEN ConfirmationRequired(
                  [m EXCEPT !.st.psu_auth_factor = callback_url.factor,
                            !.st.validation_confirmation_required = TRUE])
         ELSE confirmed(confirm_payment_validation(m, callback_url.factor))
    ELSE IF flow = "SIMPLE"
    THEN IF confirmation_required
         THEN ConfirmationRequired(
                  [m EXCEPT !.st.psu_auth_factor = NONE,
                            !.st.validation_confirmation_required = TRUE])
         ELSE IF cfg.VALIDATION_CONFIRMATION_STATUS_REQUIRED THEN SameInteraction(m)
         ELSE IF callback_url.kind = "skipped" THEN SameInteraction(m)
         ELSE IF cfg.UNSAFE_CONFIRMATIONS
         THEN ConfirmationRequired(
                  [m EXCEPT !.st.psu_auth_factor = NONE,
                            !.st.validation_confirmation_required = TRUE])
         ELSE confirmed(confirm_payment_validation(m, NONE))
    ELSE SameInteraction(m)

resume_payment_validation_redirect_ignores_confirm(m, confirmation_required) ==
    IF ~Running(m) THEN m
    ELSE resume_redirect_callback(m, confirmation_required)

resume_payment_validation_redirect(m, confirmation_required) ==
    IF ~Running(m) THEN m
    ELSE IF m.conf.confirm # NONE THEN resume_redirect_confirm(m)
    ELSE resume_redirect_callback(m, confirmation_required)

HasCallback(callback_uri) == callback_uri.kind = "url"

\* resume_payment_validation, the branch of a failure that is already frozen
\* (lines 1772-1808)
resume_frozen_no_wait(m) ==
    Then(IF cfg.UNSAFE_URL_ERROR_DETECTION /\ HasCallback(m.conf.auth_uri)
         THEN detect_validation_callback_error(m, m.conf.auth_uri)
         ELSE m,
         LAMBDA m1 :
        IF m1.st.first_failure_validation_data.code # NONE
        THEN Raise(m1, Exc("PaymentValidationError",
                           m1.st.first_failure_validation_data.code,
                           IF m1.st.first_failure_validation_data.msg = NONE THEN ""
                           ELSE m1.st.first_failure_validation_data.msg))
        ELSE Raise(m1, Exc("PaymentValidationError", LibDefaultCode, "")))

resume_frozen(m) ==
    Then(IF cfg.UNSAFE_URL_ERROR_DETECTION /\ HasCallback(m.conf.auth_uri)
         THEN detect_validation_callback_error(m, m.conf.auth_uri)
         ELSE m,
         LAMBDA m1 :
        IF /\ cfg.UNSAFE_URL_ERROR_DETECTION
           /\ cfg.VALIDATION_FAILURE_CALLBACK_DETECTION_TIMEOUT # NoTime
           /\ m1.st.first_failure_at + cfg.VALIDATION_FAILURE_CALLBACK_DETECTION_TIMEOUT > now
        THEN SameInteraction(m1)
        ELSE IF m1.st.first_failure_validation_data.code # NONE
        THEN Raise(m1, Exc("PaymentValidationError",
                           m1.st.first_failure_validation_data.code,
                           IF m1.st.first_failure_validation_data.msg = NONE THEN ""
                           ELSE m1.st.first_failure_validation_data.msg))
        ELSE Raise(m1, Exc("PaymentValidationError", LibDefaultCode, "")))

resume_on_validation_error_always_waits(m) ==
    LET exc == m.exc
        r   == Resume(m)
    IN  IF m.st.validation_approach # "REDIRECT" THEN m
        ELSE IF ~cfg.UNSAFE_URL_ERROR_DETECTION THEN m
        ELSE IF HasCallback(m.conf.auth_uri)
        THEN LET d == detect_validation_callback_error(r, m.conf.auth_uri)
             IN  IF Running(d) THEN m ELSE d
        ELSE SameInteraction(
                 [r EXCEPT !.st.first_failure_at = now,
                           !.st.first_failure_validation_data =
                               [code |-> exc.code,
                                msg |-> IF exc.msg = "" THEN NONE ELSE exc.msg]])

\* resume_payment_validation, the handler of a validation error raised by
\* the status check (lines 1817-1860); m ended by that error
resume_on_validation_error(m) ==
    LET exc == m.exc
        r   == Resume(m)
    IN  IF m.st.validation_approach # "REDIRECT" THEN m
        ELSE IF ~cfg.UNSAFE_URL_ERROR_DETECTION THEN m
        ELSE IF HasCallback(m.conf.auth_uri)
        THEN LET d == detect_validation_callback_error(r, m.conf.auth_uri)
             IN  IF Running(d) THEN m ELSE d
        ELSE IF cfg.VALIDATION_FAILURE_CALLBACK_DETECTION_TIMEOUT = NoTime THEN m
        ELSE SameInteraction(
                 [r EXCEPT !.st.first_failure_at = now,
                           !.st.first_failure_validation_data =
                               [code |-> exc.code,
                                msg |-> IF exc.msg = "" THEN NONE ELSE exc.msg]])

\* resume_payment_validation, its end (lines 1866-1878)
resume_payment_validation_redirect_or_fail(m, confirmation_required) ==
    IF ~Running(m) THEN m
    ELSE IF m.st.validation_approach = "REDIRECT"
    THEN resume_payment_validation_redirect(m, confirmation_required)
    ELSE Raise(m, Exc("NotImplementedError", NONE, NONE))

resume_payment_validation(m) ==
    IF ~Running(m) THEN m
    ELSE IF m.st.first_failure_at # NoTime
    THEN resume_frozen(Note(m, Ev("resume", NONE)))
    ELSE
    Let(check_current_validation_status(Note(m, Ev("resume", NONE))), LAMBDA c :
        IF Caught(c, {"PaymentConfirmationRequired"})
        THEN resume_payment_validation_redirect_or_fail(Resume(c), TRUE)
        ELSE IF Caught(c, {"PaymentValidationError"})
        THEN resume_on_validation_error(c)
        ELSE IF Caught(c, {"PaymentInteractionSkipped"}) THEN Resume(c)
        ELSE resume_payment_validation_redirect_or_fail(c, FALSE))

initialize_payment_validation_skippable(m) ==
    IF ~Running(m) THEN m
    ELSE Raise([m EXCEPT !.st.payment_nonce = m.resp.nonce,
                         !.st.validation_approach = m.resp.approach],
               Exc("PaymentRedirect", "can_skip", NONE))

\* initialize_payment_validation: stores the nonce and the approach the bank
\* chose, and always raises.
initialize_payment_validation(m) ==
    IF ~Running(m) THEN m
    ELSE
    LET m1 == [m EXCEPT !.st.payment_nonce = m.resp.nonce,
                        !.st.validation_approach = m.resp.approach]
    IN  IF m.resp.approach = "REDIRECT"
        THEN IF cfg.VALIDATION_REDIRECT_FLOW \in
                    {"SIMPLE", "SIMPLE_WITHOUT_CONFIRMATION", "SIMPLE_WITH_AUTH_FACTOR"}
             THEN Raise(m1, Exc("PaymentRedirect",
                                IF is_validation_redirect_skippable
                                THEN "can_skip" ELSE "no_skip", NONE))
             ELSE IF cfg.VALIDATION_REDIRECT_FLOW \notin OAuthFlows
             THEN Raise(m1, Exc("NotImplementedError", NONE, NONE))
             ELSE Raise(m1, Exc("PaymentRedirect", "no_skip", NONE))
        ELSE Raise(m1, Exc("NotImplementedError", NONE, NONE))

\* build_random_identifier, for the payment information and per instruction
InstructionIds(rnd, n) == [i \in 1..n |-> 10 * rnd + i]

\* dialect.build_payload: what the payload of a creation or of a cancellation
\* says of the creation date, the payment-information id and the
\* instruction ids it was built with.
Payload(creation_date, payment_information_id, instruction_ids) ==
    ToString(<<creation_date, payment_information_id, instruction_ids>>)

\* create_payment: generates the creation parameters, sends the creation
\* request, stores the identifier found in the Location header.
create_payment(m) ==
    Then(raise_for_status(
             Send(Note([m EXCEPT
                          !.st.payment_creation_date = now,
                          !.st.payment_information_id = m.conf.rnd,
                          !.st.payment_instruction_ids =
                              InstructionIds(m.conf.rnd, m.pay.n),
                          !.st.pkce_verifier =
                              IF cfg.VALIDATION_REDIRECT_WITH_PKCE THEN "verifier" ELSE @],
                       Ev("payload", Payload(now, m.conf.rnd,
                                             InstructionIds(m.conf.rnd, m.pay.n)))),
                  Ev("create", m.st.oauth_token))),
         LAMBDA m2 :
             IF m2.resp.payid = NoId
             THEN Raise([m2 EXCEPT !.page = PageOf("new_payment", m2.resp)],
                        Exc("ValueError", NONE, NONE))
             ELSE initialize_payment_validation(
                      [m2 EXCEPT !.page = PageOf("new_payment", m2.resp),
                                 !.pay.id = m2.resp.payid]))

-----------------------------------------------------------------------------
(* Entry points.                                                           *)

\* create_and_validate_payment, its end: the final status check and the
\* reset (lines 2648-2677)
validate_final_check_no_assert(m) ==
    IF ~Running(m) THEN m
    ELSE
    Let(check_current_validation_status(Note(m, Ev("final_check", NONE))), LAMBDA c :
        IF Caught(c, {"PaymentConfirmationRequired"})
        THEN reset_validation(Note(Resume(c), Ev("final", "confirmation_required")))
        ELSE IF Caught(c, {"PaymentInteractionSkipped"})
        THEN reset_validation(Note(Resume(c), Ev("final", "finished")))
        ELSE IF Running(c)
        THEN reset_validation(Note(c, Ev("final", "awaiting")))
        ELSE c)

validate_final_check(m) ==
    IF ~Running(m) THEN m
    ELSE
    Let(check_current_validation_status(Note(m, Ev("final_check", NONE))), LAMBDA c :
        IF Caught(c, {"PaymentConfirmationRequired"})
        THEN Raise(Note(Resume(c), Ev("final", "confirmation_required")),
                   Exc("AssertionError", NONE, NONE))
        ELSE IF Caught(c, {"PaymentInteractionSkipped"})
        THEN reset_validation(Note(Resume(c), Ev("final", "finished")))
        ELSE IF Running(c)
        THEN Raise(Note(c, Ev("final", "awaiting")), Exc("AssertionError", NONE, NONE))
        ELSE c)

Retry(m) == request_pre_step_client_token(Note(Resume(m), Ev("retry", NONE)))

\* create_and_validate_payment, its test of the payment identifier (line 2634)
has_payment_id_never(m) == FALSE

has_payment_id(m) == m.pay.id # NoId

RECURSIVE create_and_validate_payment(_)
create_and_validate_payment(m) ==
    Then(check_pre_step(m), LAMBDA m1 :
        IF ~has_payment_id(m1)
        THEN validate_final_check(create_payment(m1))
        ELSE Let(resume_payment_validation(m1), LAMBDA r :
                 IF Caught(r, ClientErrors) /\ should_retry_with_new_token(r)
                 THEN create_and_validate_payment(Retry(r))
                 ELSE validate_final_check(r)))

RECURSIVE check_payment_during_creation_resurfaces(_)
check_payment_during_creation_resurfaces(m) ==
    IF m.pay.id = NoId THEN m
    ELSE
    Then(check_pre_step(m), LAMBDA m1 :
    Let(check_current_validation_status(m1), LAMBDA c :
        IF Caught(c, {"PaymentConfirmationRequired"})
        THEN IF is_validation_redirect_skippable
             THEN Raise(Resume(c), Exc("PaymentInteractionSkipped", NONE, NONE))
             ELSE Resume(c)
        ELSE IF Caught(c, ClientErrors) /\ should_retry_with_new_token(c)
        THEN check_payment_during_creation_resurfaces(Retry(c))
        ELSE c))

RECURSIVE check_payment_during_creation_marks(_)
check_payment_during_creation_marks(m) ==
    IF m.pay.id = NoId THEN m
    ELSE
    Then(check_pre_step(m), LAMBDA m1 :
    Let(check_current_validation_status(m1), LAMBDA c :
        IF Caught(c, {"PaymentConfirmationRequired"})
        THEN IF /\ is_validation_redirect_skippable
                /\ ~c.st.validation_confirmation_required
             THEN Raise([Resume(c) EXCEPT !.st.validation_confirmation_required = TRUE],
                        Exc("PaymentInteractionSkipped", NONE, NONE))
             ELSE Resume(c)
        ELSE IF Caught(c, ClientErrors) /\ should_retry_with_new_token(c)
        THEN check_payment_during_creation_marks(Retry(c))
        ELSE c))

RECURSIVE check_payment_during_creation(_)
check_payment_during_creation(m) ==
    IF m.pay.id = NoId THEN m
    ELSE
    Then(check_pre_step(m), LAMBDA m1 :
    Let(check_current_validation_status(m1), LAMBDA c :
        IF Caught(c, {"PaymentConfirmationRequired"})
        THEN IF /\ is_validation_redirect_skippable
                /\ ~c.st.validation_confirmation_required
             THEN Raise(Resume(c), Exc("PaymentInteractionSkipped", NONE, NONE))
             ELSE Resume(c)
        ELSE IF Caught(c, ClientErrors) /\ should_retry_with_new_token(c)
        THEN check_payment_during_creation(Retry(c))
        ELSE c))

INSTRUCTION_STATUS_REASON_MAPPING ==
    [r \in {"DS02", "FRAD", "RR04"} |->
        IF r = "DS02" THEN "CANCELLED_BY_PSU" ELSE "REGULATORY_REASON"]

\* set_instruction_status: the instruction with its new status, or the
\* failure the raw codes lead to.
set_instruction_status(instruction, payment_status, payment_status_reason,
                       instruction_status, instruction_status_reason) ==
    LET raw_status == IF instruction_status = NONE \/ instruction_status = "ACTC"
                      THEN payment_status ELSE instruction_status
        raw_status_reason == IF instruction_status_reason = NONE
                             THEN payment_status_reason
                             ELSE instruction_status_reason
        done(i) == [ok |-> TRUE, instruction |-> i]
    IN  IF raw_status = "ACSC"
        THEN done([instruction EXCEPT !.status = "DONE"])
        ELSE IF raw_status = "CANC"
        THEN done([status |-> "REJECTED", reason |-> "CANCELLED_BY_PSU"])
        ELSE IF raw_status = "RJCT"
        THEN done([status |-> "REJECTED",
                   reason |-> IF raw_status_reason = NONE THEN "NONE"
                              ELSE IF raw_status_reason \in
                                        DOMAIN INSTRUCTION_STATUS_REASON_MAPPING
                              THEN INSTRUCTION_STATUS_REASON_MAPPING[raw_status_reason]
                              ELSE "OTHER"])
        ELSE IF raw_status \in {"ACCP", "ACSP", "PDNG"}
        THEN done([instruction EXCEPT !.status = "PENDING"])
        ELSE [ok |-> FALSE, instruction |-> instruction]

RECURSIVE refresh_payment(_)
refresh_payment(m) ==
    IF m.pay.id = NoId THEN Raise(m, Exc("AssertionError", NONE, NONE))
    ELSE
    Then(check_pre_step(m), LAMBDA m1 :
    Let(raise_for_status(Send(m1, Ev("status", m1.st.oauth_token))), LAMBDA g :
        IF Caught(g, {"HTTPNotFound"})
        THEN IF cfg.RAISE_PAYMENTACCESSEXPIRED_ON_404
             THEN Raise(Resume(g), Exc("PaymentAccessExpired", NONE, NONE))
             ELSE g
        ELSE IF Caught(g, ClientErrors) /\ should_retry_with_new_token(g)
        THEN refresh_payment(Retry(g))
        ELSE IF ~Running(g) THEN g
        ELSE Let([i \in 1..g.pay.n |->
                     set_instruction_status(g.pay.instr[i], g.resp.status,
                                            g.resp.reason, g.resp.istatus,
                                            g.resp.ireason)],
                 LAMBDA upd :
                     IF \E i \in 1..g.pay.n : ~upd[i].ok
                     THEN Raise([g EXCEPT !.page = PageOf("payment", g.resp)],
                                Exc("NotImplementedError", NONE, NONE))
                     ELSE [g EXCEPT !.page = PageOf("payment", g.resp),
                                    !.pay.instr = [i \in 1..g.pay.n |->
                                                      upd[i].instruction]])))

-----------------------------------------------------------------------------
(* Cancellation state machine.                                             *)

CANCELLATION_REASON_MAPPING == [r \in {"ORDERED_BY_PSU"} |-> "DS02"]

check_current_cancellation_status(m) ==
    Then(Then(get_payment_status_data(m), LAMBDA d :
             Note(d, Ev("cancellation_status", d.data.status))), LAMBDA m1 :
        IF m1.data.status \in {"RJCT", "CANC"}
        THEN Raise(m1, Exc("PaymentInteractionSkipped", NONE, NONE))
        ELSE IF m1.data.status \notin {"PDNG", "ACSP"}
        THEN Raise(m1, Exc("PaymentCancellationError", "NOT_CANCELLABLE", ""))
        ELSE m1)

request_cancellation_token(m, code) == request_oauth_token(m, "authorization_code")

confirm_payment_cancellation(m, psu_auth_factor) ==
    Then(raise_for_status(Send(m, Ev("confirm", m.st.oauth_token))), LAMBDA m1 :
        [m1 EXCEPT !.page = PageOf("confirmation", m1.resp)])

confirm_payment_oauth_cancellation(m) ==
    Then(raise_for_status(Send(m, Ev("confirm", m.st.oauth_token))), LAMBDA m1 :
        [m1 EXCEPT !.page = PageOf("confirmation", m1.resp)])

detect_cancellation_callback_error(m, callback_url) ==
    IF ~Running(m) THEN m
    ELSE IF CallbackErrorCode(callback_url) = NONE THEN m
    ELSE Raise(m, Exc("PaymentCancellationError", LibDefaultCode,
                      IF callback_url.error_description = NONE
                      THEN "" ELSE callback_url.error_description))

initialize_payment_cancellation_validation(m) ==
    IF ~Running(m) THEN m
    ELSE
    LET m1 == [m EXCEPT !.st.payment_nonce = m.resp.nonce,
                        !.st.validation_approach = m.resp.approach]
        flow == cfg.CANCELLATION_REDIRECT_FLOW
    IN  IF m.resp.approach = "NONE"
        THEN Let(check_current_cancellation_status(m1), LAMBDA c :
                 IF Caught(c, {"PaymentInteractionSkipped"}) THEN Resume(c)
                 ELSE Raise(c, Exc("AssertionError", NONE, NONE)))
        ELSE IF m.resp.approach = "REDIRECT"
        THEN IF flow \in {"SIMPLE", "SIMPLE_WITHOUT_CONFIRMATION",
                          "SIMPLE_WITH_AUTH_FACTOR"}
             THEN Raise(m1, Exc("PaymentRedirect",
                                IF flow = "SIMPLE_WITHOUT_CONFIRMATION"
                                THEN "can_skip" ELSE "no_skip", NONE))
             ELSE IF flow \notin OAuthFlows
             THEN Raise(m1, Exc("NotImplementedError", NONE, NONE))
             ELSE Raise(m1, Exc("PaymentRedirect", "no_skip", NONE))
        ELSE Raise(m1, Exc("NotImplementedError", NONE, NONE))

\* resume_payment_cancellation_redirect
resume_payment_cancellation_redirect(m) ==
    LET flow == cfg.CANCELLATION_REDIRECT_FLOW
        callback_url == m.conf.auth_uri
    IN
    IF ~Running(m) THEN m
    ELSE IF m.conf.confirm # NONE
    THEN IF m.conf.confirm = "false"
         THEN Raise(m, Exc("PaymentCancellationError", "CONFIRMATION_REFUSED", ""))
         ELSE IF flow \in OAuthFlows
         THEN Let(IF /\ m.st.oauth_token_to_be_requested
                     /\ m.st.oauth_authorisation_code # NONE
                  THEN request_cancellation_token(
                           [m EXCEPT !.st.oauth_token_to_be_requested = FALSE],
                           m.st.oauth_authorisation_code)
                  ELSE m,
                  LAMBDA m1 :
                      reset_oauth_token(
                          IF flow = "OAUTH_AUTHORISATION_CODE"
                          THEN confirm_payment_oauth_cancellation(m1)
                          ELSE m1))
         ELSE confirm_payment_cancellation(m, m.st.psu_auth_factor)
    ELSE IF m.st.validation_confirmation_required THEN SameInteraction(m)
    ELSE IF callback_url.kind = "none" THEN SameInteraction(m)
    ELSE IF flow \in OAuthFlows
    THEN IF callback_url.kind = "skipped" THEN SameInteraction(m)
         ELSE IF callback_url.code = NONE THEN SameInteraction(m)
         ELSE
         LET m1 == [m EXCEPT !.st.oauth_authorisation_code = callback_url.code]
         IN  IF /\ flow = "OAUTH_AUTHORISATION_CODE_WITHOUT_CONFIRMATION"
                /\ cfg.UNSAFE_CONFIRMATIONS
             THEN ConfirmationRequired(
                      [m1 EXCEPT !.st.oauth_token_to_be_requested = TRUE])
             ELSE
             Then(request_cancellation_token(m1, callback_url.code), LAMBDA m2 :
                 IF flow = "OAUTH_AUTHORISATION_CODE"
                 THEN ConfirmationRequired(m2)
                 ELSE reset_oauth_token(m2))
    ELSE IF flow = "SIMPLE_WITH_AUTH_FACTOR"
    THEN IF callback_url.kind = "skipped" THEN SameInteraction(m)
         ELSE IF callback_url.factor = NONE THEN SameInteraction(m)
         ELSE IF cfg.UNSAFE_CONFIRMATIONS
         THEN ConfirmationRequired(
                  [m EXCEPT !.st.psu_auth_factor = callback_url.factor])
         ELSE confirm_payment_cancellation(m, callback_url.factor)
    ELSE SameInteraction(m)

\* resume_payment_cancellation_validation, the branch of a failure that is
\* already frozen (lines 2466-2502)
resume_cancellation_frozen(m) ==
    Then(IF cfg.UNSAFE_URL_ERROR_DETECTION /\ HasCallback(m.conf.auth_uri)
         THEN detect_cancellation_callback_error(m, m.conf.auth_uri)
         ELSE m,
         LAMBDA m1 :
        IF /\ cfg.UNSAFE_URL_ERROR_DETECTION
           /\ cfg.CANCELLATION_FAILURE_CALLBACK_DETECTION_TIMEOUT # NoTime
           /\ m1.st.first_failure_at + cfg.CANCELLATION_FAILURE_CALLBACK_DETECTION_TIMEOUT > now
        THEN SameInteraction(m1)
        ELSE IF m1.st.first_failure_cancellation_data.code # NONE
        THEN Raise(m1, Exc("PaymentCancellationError",
                           m1.st.first_failure_cancellation_data.code,
                           IF m1.st.first_failure_cancellation_data.msg = NONE THEN ""
                           ELSE m1.st.first_failure_cancellation_data.msg))
        ELSE Raise(m1, Exc("PaymentCancellationError", LibDefaultCode, "")))

\* resume_payment_cancellation_validation, the handler of a cancellation
\* error raised by the status check (lines 2506-2550); m ended by that error
resume_on_cancellation_error(m) ==
    LET exc == m.exc
        r   == Resume(m)
    IN  IF m.st.validation_approach # "REDIRECT" THEN m
        ELSE IF ~cfg.UNSAFE_URL_ERROR_DETECTION THEN m
        ELSE IF HasCallback(m.conf.auth_uri)
        THEN LET d == detect_cancellation_callback_error(r, m.conf.auth_uri)
             IN  IF Running(d) THEN m ELSE d
        ELSE IF cfg.CANCELLATION_FAILURE_CALLBACK_DETECTION_TIMEOUT = NoTime THEN m
        ELSE SameInteraction(
                 [r EXCEPT !.st.first_failure_at = now,
                           !.st.first_failure_cancellation_data =
                               [code |-> exc.code,
                                msg |-> IF exc.msg = "" THEN NONE ELSE exc.msg]])

resume_payment_cancellation_validation(m) ==
    IF ~Running(m) THEN m
    ELSE IF m.st.first_failure_at # NoTime THEN resume_cancellation_frozen(m)
    ELSE
    Let(check_current_cancellation_status(m), LAMBDA c :
        IF Caught(c, {"PaymentCancellationError"})
        THEN resume_on_cancellation_error(c)
        ELSE IF Caught(c, {"PaymentInteractionSkipped"}) THEN Resume(c)
        ELSE IF ~Running(c) THEN c
        ELSE IF c.st.validation_approach = "REDIRECT"
        THEN resume_payment_cancellation_redirect(c)
        ELSE Raise(c, Exc("NotImplementedError", NONE, NONE)))

cancel_request_new_ids(m) ==
    Let(check_current_cancellation_status(m), LAMBDA c :
        IF ~Running(c) THEN c
        ELSE raise_for_status(
                 Send(Note(c, Ev("payload",
                                 Payload(c.st.payment_creation_date, m.conf.rnd,
                                         InstructionIds(m.conf.rnd, m.pay.n)))),
                      Ev("cancel", c.st.oauth_token))))

\* cancel_payment, the first request of a cancellation (lines 2803-2860)
cancel_request(m) ==
    Let(check_current_cancellation_status(m), LAMBDA c :
        IF Caught(c, {"PaymentInteractionSkipped"})
        THEN Raise(Resume(c), Exc("PaymentCancellationError", "ALREADY_CANCELLED", ""))
        ELSE IF ~Running(c) THEN c
        ELSE Then(raise_for_status(
                      Send(Note([c EXCEPT !.st.pkce_verifier =
                                              IF cfg.CANCELLATION_REDIRECT_WITH_PKCE
                                              THEN "verifier" ELSE NONE],
                                Ev("payload",
                                   Payload(c.st.payment_creation_date,
                                           c.st.payment_information_id,
                                           c.st.payment_instruction_ids))),
                           Ev("cancel", c.st.oauth_token))),
                  LAMBDA m2 :
                      initialize_payment_cancellation_validation(
                          [m2 EXCEPT !.page = PageOf("cancellation", m2.resp)])))

cancel_final_check_lenient(m) ==
    IF ~Running(m) THEN m
    ELSE
    Let(check_current_cancellation_status(m), LAMBDA c :
        IF Caught(c, {"PaymentInteractionSkipped"})
        THEN Note(Resume(c), Ev("final", "cancelled"))
        ELSE IF Running(c)
        THEN Note(c, Ev("final", "not_cancelled"))
        ELSE c)

\* cancel_payment, the final status check (lines 2864-2877)
cancel_final_check(m) ==
    IF ~Running(m) THEN m
    ELSE
    Let(check_current_cancellation_status(m), LAMBDA c :
        IF Caught(c, {"PaymentInteractionSkipped"})
        THEN Note(Resume(c), Ev("final", "cancelled"))
        ELSE IF Running(c)
        THEN Raise(Note(c, Ev("final", "not_cancelled")),
                   Exc("AssertionError", NONE, NONE))
        ELSE c)

cancel_payment_checks_late(m) ==
    Then(check_pre_step(reset_oauth_token(m)), LAMBDA m1 :
        IF m.conf.reason \notin DOMAIN CANCELLATION_REASON_MAPPING
        THEN Raise(m1, Exc("PaymentCancellationError", "OTHER",
                           "Unsupported cancellation reason."))
        ELSE Raise(m1, Exc("PaymentCancellationError", "NOT_CANCELLABLE",
                           "Unable to cancel the payment due to internal changes.")))

cancel_payment_always_requests(m) ==
    IF m.conf.reason \notin DOMAIN CANCELLATION_REASON_MAPPING
    THEN Raise(m, Exc("PaymentCancellationError", "OTHER",
                      "Unsupported cancellation reason."))
    ELSE IF \/ m.st.payment_information_id = NoId
            \/ m.st.payment_creation_date = NoTime
            \/ m.st.payment_instruction_ids = <<>>
    THEN Raise(m, Exc("PaymentCancellationError", "NOT_CANCELLABLE",
                      "Unable to cancel the payment due to internal changes."))
    ELSE
    Then(check_pre_step(reset_oauth_token(m)), LAMBDA m1 :
    Let(cancel_final_check(cancel_request(m1)),
        LAMBDA b :
            IF b.ctl = "exc" /\ b.exc.type \notin Interactions
            THEN Raise(reset_validation(Resume(b)), b.exc)
            ELSE b))

cancel_payment(m) ==
    IF m.conf.reason \notin DOMAIN CANCELLATION_REASON_MAPPING
    THEN Raise(m, Exc("PaymentCancellationError", "OTHER",
                      "Unsupported cancellation reason."))
    ELSE IF \/ m.st.payment_information_id = NoId
            \/ m.st.payment_creation_date = NoTime
            \/ m.st.payment_instruction_ids = <<>>
    THEN Raise(m, Exc("PaymentCancellationError", "NOT_CANCELLABLE",
                      "Unable to cancel the payment due to internal changes."))
    ELSE
    Then(check_pre_step(reset_oauth_token(m)), LAMBDA m1 :
    Let(cancel_final_check(
            IF m1.st.validation_approach = "NONE"
            THEN cancel_request(m1)
            ELSE resume_payment_cancellation_validation(m1)),
        LAMBDA b :
            IF b.ctl = "exc" /\ b.exc.type \notin Interactions
            THEN Raise(reset_validation(Resume(b)), b.exc)
            ELSE b))

RECURSIVE check_payment_during_cancellation(_)
check_payment_during_cancellation(m) ==
    Then(check_pre_step(m), LAMBDA m1 :
    Let(check_current_cancellation_status(m1), LAMBDA c :
        IF Caught(c, ClientErrors) /\ should_retry_with_new_token(c)
        THEN check_payment_during_cancellation(Retry(c))
        ELSE c))

-----------------------------------------------------------------------------
(* The instance, its callers and the bank.                                 *)

NoPage == [kind |-> "none", status |-> NONE, reason |-> NONE]

NoResponse ==
    [http |-> 0, ttl |-> NoTime, json |-> FALSE, rt |-> NONE, status |-> NONE,
     reason |-> NONE, nonce |-> NONE, approach |-> "NONE", payid |-> NoId,
     istatus |-> NONE, ireason |-> NONE]

NoConf == [reason |-> NONE, confirm |-> NONE, auth_uri |-> NoCallback, rnd |-> 0]

Idle == [hist |-> <<>>, conf |-> NoConf, op |-> "idle"]

NoCall == [log |-> <<>>, conf |-> NoConf, op |-> "none", out |-> OK]

\* The instance at the start of a call, with the answers the bank gave to
\* the requests of this call so far.
Machine(conf, hist) ==
    [st |-> st, pay |-> pay, page |-> page, new_token |-> new_token,
     ctl |-> "run", exc |-> OK, log |-> <<>>, idx |-> 0,
     hist |-> hist, resp |-> NoResponse, pend |-> Ev(NONE, NONE), ret |-> FALSE,
     data |-> [status |-> NONE, reason |-> NONE], conf |-> conf]

Exec(op, conf, hist) ==
    LET m == Machine(conf, hist)
    IN  CASE op = "create_and_validate_payment" -> create_and_validate_payment(m)
          [] op = "check_payment_during_creation" -> check_payment_during_creation(m)
          [] op = "refresh_payment" -> refresh_payment(m)
          [] op = "cancel_payment" -> cancel_payment(m)
          [] op = "check_payment_during_cancellation" ->
                 check_payment_during_cancellation(m)
          [] op = "check_current_validation_status" ->
                 check_current_validation_status(m)
          [] op = "check_pre_step" -> check_pre_step(m)

\* The call goes on to its next request, or ends: what it did to the
\* instance is then kept, with its outcome.
Advance(op, conf, hist) ==
    Let(Exec(op, conf, hist), LAMBDA r :
        IF r.ctl = "need"
        THEN /\ call' = [hist |-> hist, conf |-> conf, op |-> op]
             /\ last' = NoCall
             /\ UNCHANGED <<st, pay, page, new_token>>
        ELSE /\ call' = Idle
             /\ st' = r.st
             /\ pay' = r.pay
             /\ page' = r.page
             /\ new_token' = r.new_token
             /\ last' = [log |-> r.log, conf |-> conf,
                         op |-> op,
                         out |-> IF r.ctl = "exc" THEN r.exc ELSE OK])

Invoke(op, conf) ==
    /\ call.op = "idle"
    /\ Advance(op, conf, <<>>)
    /\ UNCHANGED <<cfg, bank, now>>

\* The answers the bank may give to a request, each with the bank after it.
Failure(http) == [NoResponse EXCEPT !.http = http]
Failures(codes, bodies) ==
    {[Failure(h) EXCEPT !.json = j] : h \in codes, j \in bodies}

Answers(req, sc) ==
    IF req.kind = "token"
    THEN {[bank |-> bank,
           ans |-> [NoResponse EXCEPT !.http = 200, !.ttl = t, !.rt = r]] :
            t \in sc.ttls, r \in sc.refresh_tokens}
         \cup {[bank |-> bank, ans |-> f] :
                  f \in Failures(sc.token_errors, sc.error_bodies)}
    ELSE {[bank |-> bank, ans |-> f] :
             f \in Failures(sc.api_errors, sc.error_bodies)} \cup
    IF req.kind = "status"
    THEN {[bank |-> bank,
           ans |-> [NoResponse EXCEPT !.http = 200, !.status = bank.status,
                                      !.reason = bank.reason,
                                      !.istatus = i[1], !.ireason = i[2]]] :
            i \in IF call.op = "refresh_payment" THEN sc.instructions
                  ELSE {<<NONE, NONE>>}}
    ELSE IF req.kind = "create"
    THEN IF bank.created >= MaxPay THEN {[bank |-> bank, ans |-> Failure(503)]}
         ELSE {[bank |-> [status |-> "RCVD", reason |-> NONE,
                          created |-> bank.created + 1],
                ans |-> [NoResponse EXCEPT !.http = 201, !.approach = a,
                                           !.nonce = "nonce", !.payid = p]] :
                 a \in sc.approaches, p \in {bank.created + 1} \cup sc.no_location}
    ELSE IF req.kind = "confirm"
    THEN {[bank |-> [bank EXCEPT !.status = s[1], !.reason = s[2]],
           ans |-> [NoResponse EXCEPT !.http = 200, !.status = s[1], !.reason = s[2]]] :
            s \in sc.statuses}
    ELSE {[bank |-> bank,
           ans |-> [NoResponse EXCEPT !.http = 200, !.approach = a,
                                      !.nonce = "nonce"]] :
            a \in sc.cancellation_approaches}

\* The bank answers the request the call in progress waits on.
Respond(sc) ==
    /\ call.op # "idle"
    /\ \E a \in Answers(Exec(call.op, call.conf, call.hist).pend, sc) :
          /\ bank' = a.bank
          /\ Advance(call.op, call.conf, Append(call.hist, a.ans))
    /\ UNCHANGED <<cfg, now>>

CreateAndValidatePayment(sc) ==
    \E u \in sc.callbacks, c \in sc.confirms :
        Invoke("create_and_validate_payment",
               [reason |-> NONE, confirm |-> c, auth_uri |-> u, rnd |-> 1])

CheckPaymentDuringCreation ==
    Invoke("check_payment_during_creation", NoConf)

RefreshPayment ==
    Invoke("refresh_payment", NoConf)

CancelPayment(sc) ==
    \E u \in sc.callbacks, c \in sc.confirms, r \in sc.cancellation_reasons :
        Invoke("cancel_payment",
               [reason |-> r, confirm |-> c, auth_uri |-> u, rnd |-> 0])

CheckPaymentDuringCancellation ==
    Invoke("check_payment_during_cancellation", NoConf)

\* The status decoder called on its own, on a payment that exists.
CheckCurrentValidationStatus ==
    /\ pay.id # NoId
    /\ Invoke("check_current_validation_status", NoConf)

\* The pre-step check called on its own.
CheckPreStep == Invoke("check_pre_step", NoConf)

\* Time passes between two calls.
Tick ==
    /\ call.op = "idle"
    /\ now < MaxTime
    /\ now' = now + 1
    /\ last' = NoCall
    /\ UNCHANGED <<cfg, st, pay, page, new_token, bank, call>>

\* The PSU or the bank moves the payment request to another status.
BankStep(sc) ==
    /\ bank.created > 0
    /\ \E s \in sc.statuses :
          /\ <<bank.status, bank.reason>> # s
          /\ bank' = [bank EXCEPT !.status = s[1], !.reason = s[2]]
    /\ last' = NoCall
    /\ UNCHANGED <<cfg, st, pay, page, new_token, now, call>>

\* The Session State and the payment are handed to a new instance.
Restart ==
    /\ call.op = "idle"
    /\ page # NoPage \/ new_token
    /\ page' = NoPage
    /\ new_token' = FALSE
    /\ last' = NoCall
    /\ UNCHANGED <<cfg, st, pay, bank, now, call>>

NewPayment == [n |-> 1, id |-> NoId,
               instr |-> [i \in 1..1 |-> [status |-> "NONE", reason |-> "NONE"]]]

InitWith(configs) ==
    /\ cfg \in configs
    /\ st = InitialState
    /\ pay = NewPayment
    /\ page = NoPage
    /\ new_token = FALSE
    /\ bank = [status |-> NONE, reason |-> NONE, created |-> 0]
    /\ now = 0
    /\ call = Idle
    /\ last = NoCall

-----------------------------------------------------------------------------
(* A payment session: every entry point, a bank that answers every         *)
(* request, a PSU who validates, refuses or lets the payment wait.         *)

ConfigsSession ==
    {DefaultConfig,
     [DefaultConfig EXCEPT !.UNSAFE_URL_ERROR_DETECTION = TRUE],
     [DefaultConfig EXCEPT !.VALIDATION_REDIRECT_FLOW = "OAUTH_AUTHORISATION_CODE",
                           !.UNSAFE_URL_ERROR_DETECTION = TRUE],
     [DefaultConfig EXCEPT !.VALIDATION_REDIRECT_FLOW =
                               "OAUTH_AUTHORISATION_CODE_WITHOUT_CONFIRMATION",
                           !.VALIDATION_REDIRECT_WITH_PKCE = TRUE,
                           !.UNSAFE_CONFIRMATIONS = TRUE],
     [DefaultConfig EXCEPT !.VALIDATION_REDIRECT_FLOW = "SIMPLE_WITH_AUTH_FACTOR",
                           !.UNSAFE_CONFIRMATIONS = TRUE]}

ScopeSession ==
    [ttls |-> {NoTime},
     refresh_tokens |-> {NONE},
     token_errors |-> {},
     error_bodies |-> {FALSE},
     api_errors |-> {},
     instructions |-> {<<NONE, NONE>>},
     approaches |-> {"REDIRECT"},
     no_location |-> {},
     statuses |-> {<<"ACTC", NONE>>, <<"ACCO", NONE>>, <<"ACSP", NONE>>,
                   <<"RJCT", "AC01">>},
     cancellation_approaches |-> {"NONE", "REDIRECT"},
     callbacks |-> {NoCallback, Url("code", "factor", NONE, NONE, NONE)},
     confirms |-> {NONE, "true"},
     cancellation_reasons |-> {"ORDERED_BY_PSU"}]

InitSession == InitWith(ConfigsSession)

NextSession ==
    \/ CreateAndValidatePayment(ScopeSession)
    \/ CheckPaymentDuringCreation
    \/ RefreshPayment
    \/ CancelPayment(ScopeSession)
    \/ CheckPaymentDuringCancellation
    \/ Respond(ScopeSession)
    \/ BankStep(ScopeSession)
    \/ Restart

SpecSession == InitSession /\ [][NextSession]_vars

-----------------------------------------------------------------------------
(* Properties of a payment session.                                        *)

Logged(ev) == \E i \in DOMAIN last.log : last.log[i] = ev
Sent(kind) == \E i \in DOMAIN last.log : last.log[i].kind = kind

\* C1: when create_and_validate_payment returns normally, the validation
\* fields of Session State are cleared: the nonce, the PKCE verifier, the
\* authorisation code and the PSU authentication factor are empty, the
\* validation approach is NONE, and the three flags are false.
C1_ValidationCleared ==
    (last.op = "create_and_validate_payment" /\ last.out = OK) =>
        /\ st.payment_nonce = NONE
        /\ st.pkce_verifier = NONE
        /\ st.oauth_authorisation_code = NONE
        /\ st.psu_auth_factor = NONE
        /\ st.validation_approach = "NONE"
        /\ ~st.oauth_token_to_be_requested
        /\ ~st.validation_confirmation_required
        /\ ~st.validation_confirmed

\* A call that confirmed the payment, which sets validation_confirmed, and
\* then returned normally.
C1_Witness ==
    /\ last.op = "create_and_validate_payment"
    /\ last.out = OK
    /\ Sent("confirm")

\* C2: create_and_validate_payment returns normally only if its final
\* status check decodes finished; if that check, made after the resume
\* step returned, decodes awaiting PSU or confirmation required, the call
\* ends by an assertion error, neither by success nor by a wait signal, and
\* Session State is not reset.
C2_FinalCheckAsserts ==
    last.op = "create_and_validate_payment" =>
        /\ last.out = OK => Logged(Ev("final", "finished"))
        /\ (\/ Logged(Ev("final", "awaiting"))
            \/ Logged(Ev("final", "confirmation_required"))) =>
               /\ last.out.type = "AssertionError"
               /\ ~Sent("reset_validation")

\* The resume step returned and the final check found the payment still
\* awaiting the PSU.
C2_Witness ==
    /\ last.op = "create_and_validate_payment"
    /\ Sent("resume")
    /\ Logged(Ev("final", "awaiting"))
    /\ st.validation_approach = "REDIRECT"

\* C3: across any sequence of the five entry points, the payment
\* identifier is empty until a creation request has succeeded, never
\* changes once set, and no creation request is sent once it is set.
C3_PaymentIdStable ==
    [][/\ (pay.id = NoId /\ pay'.id # NoId) =>
             \E i \in DOMAIN last'.log :
                 /\ last'.log[i].kind = "create"
                 /\ last'.log[i].http \in {200, 201}
       /\ pay.id # NoId =>
             /\ pay'.id = pay.id
             /\ \A i \in DOMAIN last'.log : last'.log[i].kind # "create"]_vars

\* A call of create_and_validate_payment made when the identifier was set:
\* it resumed the validation.
C3_Witness ==
    /\ pay.id # NoId
    /\ last.op = "create_and_validate_payment"
    /\ Sent("resume")

-----------------------------------------------------------------------------
(* The delay buffer: unsafe URL error detection is enabled, the bank       *)
(* rejects the payment, and time passes between the calls.                 *)

ConfigsDelay ==
    {[DefaultConfig EXCEPT !.UNSAFE_URL_ERROR_DETECTION = TRUE],
     [DefaultConfig EXCEPT !.UNSAFE_URL_ERROR_DETECTION = TRUE,
                           !.VALIDATION_FAILURE_CALLBACK_DETECTION_TIMEOUT = NoTime]}

ErrorCallback == Url(NONE, NONE, "access_denied", NONE, "denied by the PSU")
EmptyErrorCallback == Url(NONE, NONE, "", NONE, "denied by the PSU")
ErrorCodeCallback == Url(NONE, NONE, NONE, "access_denied", NONE)

ScopeDelay ==
    [ttls |-> {NoTime},
     refresh_tokens |-> {NONE},
     token_errors |-> {},
     error_bodies |-> {FALSE},
     api_errors |-> {},
     instructions |-> {<<NONE, NONE>>},
     approaches |-> {"REDIRECT", "DECOUPLED"},
     no_location |-> {},
     statuses |-> {<<"ACSP", NONE>>, <<"RJCT", "AC01">>, <<"RJCT", NONE>>},
     cancellation_approaches |-> {"NONE"},
     callbacks |-> {NoCallback, SKIPPED, ErrorCallback, EmptyErrorCallback,
                    ErrorCodeCallback},
     confirms |-> {NONE},
     cancellation_reasons |-> {"ORDERED_BY_PSU"}]

InitDelay == InitWith(ConfigsDelay)

NextDelay ==
    \/ CreateAndValidatePayment(ScopeDelay)
    \/ CheckPaymentDuringCreation
    \/ CancelPayment(ScopeDelay)
    \/ CheckPaymentDuringCancellation
    \/ Respond(ScopeDelay)
    \/ BankStep(ScopeDelay)
    \/ Tick
    \/ Restart

SpecDelay == InitDelay /\ [][NextDelay]_vars

-----------------------------------------------------------------------------
(* Properties of the delay buffer.  In the step that ends a call, the      *)
(* unprimed variables are the instance and the clock as the call found     *)
(* them, last' is what the call did.                                       *)

Resumed(c) == \E i \in DOMAIN c.log : c.log[i].kind = "resume"
FinalChecked(c) == \E i \in DOMAIN c.log : c.log[i].kind = "final"
Rejected(c) == \E i \in DOMAIN c.log : c.log[i].kind = "rejected"
RejectionReason(c) ==
    c.log[CHOOSE i \in DOMAIN c.log : c.log[i].kind = "rejected"].arg

NoCallbackSupplied(conf) == conf.auth_uri.kind \in {"none", "skipped"}

\* The code and the message the decoder gives for a rejection, as the delay
\* buffer records them.
RecordOf(reason) ==
    IF reason = NONE THEN [code |-> LibDefaultCode, msg |-> NONE]
    ELSE IF reason \in DOMAIN VALIDATION_ERROR_CODE_MAPPING
    THEN [code |-> VALIDATION_ERROR_CODE_MAPPING[reason][1],
          msg |-> VALIDATION_ERROR_CODE_MAPPING[reason][2]]
    ELSE [code |-> "OTHER", msg |-> "Unknown error"]

FailureOf(record) ==
    Exc("PaymentValidationError", record.code,
        IF record.msg = NONE THEN "" ELSE record.msg)

Frozen == st.first_failure_at # NoTime
FrozenByResume == Frozen /\ st.first_failure_validation_data.code # NONE
FrozenUnchanged ==
    /\ st'.first_failure_at = st.first_failure_at
    /\ st'.first_failure_validation_data = st.first_failure_validation_data

\* C4: with unsafe URL error detection, the redirect approach, a non-null
\* timeout D and no callback: the resume that first detects a rejection, at
\* time T, records first_failure_at = T with the code and the message of the
\* rejection and signals same-interaction; a later resume before T + D
\* signals same-interaction; a resume at or after T + D raises the
\* validation failure with exactly the recorded code and message.
C4_DelayedFailure ==
    [][(/\ last'.op = "create_and_validate_payment"
        /\ Resumed(last')
        /\ cfg.UNSAFE_URL_ERROR_DETECTION
        /\ cfg.VALIDATION_FAILURE_CALLBACK_DETECTION_TIMEOUT # NoTime
        /\ NoCallbackSupplied(last'.conf)) =>
          /\ (/\ ~Frozen
              /\ st.validation_approach = "REDIRECT"
              /\ Rejected(last') /\ ~FinalChecked(last')) =>
                 /\ st'.first_failure_at = now
                 /\ st'.first_failure_validation_data =
                        RecordOf(RejectionReason(last'))
                 /\ last'.out.type = "PaymentSameInteraction"
          /\ (/\ FrozenByResume
              /\ now < st.first_failure_at
                          + cfg.VALIDATION_FAILURE_CALLBACK_DETECTION_TIMEOUT) =>
                 /\ last'.out.type = "PaymentSameInteraction"
                 /\ FrozenUnchanged
          /\ (/\ FrozenByResume
              /\ now >= st.first_failure_at
                           + cfg.VALIDATION_FAILURE_CALLBACK_DETECTION_TIMEOUT) =>
                 /\ last'.out = FailureOf(st.first_failure_validation_data)
                 /\ FrozenUnchanged]_vars

\* A resume without callback, made when the window of a frozen rejection
\* had elapsed, raised the recorded failure.
C4_Witness ==
    /\ last.op = "create_and_validate_payment"
    /\ Sent("resume")
    /\ NoCallbackSupplied(last.conf)
    /\ cfg.UNSAFE_URL_ERROR_DETECTION
    /\ cfg.VALIDATION_FAILURE_CALLBACK_DETECTION_TIMEOUT # NoTime
    /\ Frozen
    /\ now >= st.first_failure_at + cfg.VALIDATION_FAILURE_CALLBACK_DETECTION_TIMEOUT
    /\ last.out = FailureOf(st.first_failure_validation_data)
    /\ last.out.code = VALIDATION_ERROR_CODE_MAPPING["AC01"][1]

\* C5: once first_failure_at is set in Session State, no entry point sends
\* a payment-status query to the bank.
C5_NoStatusQueryOnceFrozen ==
    [][Frozen => \A i \in DOMAIN last'.log : last'.log[i].kind # "status"]_vars

HasErrorParameter(callback_url) ==
    /\ callback_url.kind = "url"
    /\ callback_url.error # NONE \/ callback_url.error_code # NONE

CallbackFailure(callback_url) ==
    Exc("PaymentValidationError", LibDefaultCode,
        IF callback_url.error_description = NONE
        THEN "" ELSE callback_url.error_description)

\* C6 as stated: with unsafe URL error detection, when a rejection is
\* detected for the first time or is already frozen, a resume given a
\* callback URL that carries an error or error_code parameter raises, in
\* that call, a validation failure that carries the error description of
\* the callback.
C6_AsStated ==
    [][(/\ last'.op = "create_and_validate_payment"
        /\ Resumed(last')
        /\ cfg.UNSAFE_URL_ERROR_DETECTION
        /\ HasErrorParameter(last'.conf.auth_uri)
        /\ Frozen \/ (Rejected(last') /\ ~FinalChecked(last'))) =>
          last'.out = CallbackFailure(last'.conf.auth_uri)]_vars

\* C6, amended: the same, provided the callback URL carries a non-empty
\* error parameter or else an error_code parameter, and provided the
\* validation approach of Session State is redirect when the rejection is
\* detected for the first time.
C6_CallbackErrorWins ==
    [][(/\ last'.op = "create_and_validate_payment"
        /\ Resumed(last')
        /\ cfg.UNSAFE_URL_ERROR_DETECTION
        /\ last'.conf.auth_uri.kind = "url"
        /\ CallbackErrorCode(last'.conf.auth_uri) # NONE
        /\ \/ Frozen
           \/ /\ Rejected(last') /\ ~FinalChecked(last')
              /\ st.validation_approach = "REDIRECT") =>
          /\ last'.out = CallbackFailure(last'.conf.auth_uri)
          /\ FrozenUnchanged]_vars

\* A resume given a callback with an error, made within the window of a
\* frozen rejection, raised the failure of the callback.
C6_Witness ==
    /\ last.op = "create_and_validate_payment"
    /\ Sent("resume")
    /\ Frozen
    /\ cfg.VALIDATION_FAILURE_CALLBACK_DETECTION_TIMEOUT # NoTime
    /\ now < st.first_failure_at + cfg.VALIDATION_FAILURE_CALLBACK_DETECTION_TIMEOUT
    /\ CallbackErrorCode(last.conf.auth_uri) # NONE
    /\ last.out = CallbackFailure(last.conf.auth_uri)
    /\ last.out # FailureOf(st.first_failure_validation_data)

\* C7: while delayed failure reporting is active (redirect approach, unsafe
\* URL error detection, non-null timeout), check_payment_during_creation
\* raises no validation failure before the window has elapsed.
C7_CheckWaits ==
    [][(/\ last'.op = "check_payment_during_creation"
        /\ cfg.UNSAFE_URL_ERROR_DETECTION
        /\ cfg.VALIDATION_FAILURE_CALLBACK_DETECTION_TIMEOUT # NoTime
        /\ st.validation_approach = "REDIRECT"
        /\ \/ ~Frozen
           \/ now < st.first_failure_at
                       + cfg.VALIDATION_FAILURE_CALLBACK_DETECTION_TIMEOUT) =>
          last'.out.type # "PaymentValidationError"]_vars

-----------------------------------------------------------------------------
(* Stale tokens: the bank rejects requests with 401 or 403, tokens expire,  *)
(* some of them as soon as they are granted, and time passes.              *)

ConfigsRetry ==
    {DefaultConfig,
     [DefaultConfig EXCEPT !.PRE_STEP_TYPE = "NONE"]}

ScopeRetry ==
    [ttls |-> {NoTime, 0, TokenTTL},
     refresh_tokens |-> {NONE, "rt"},
     token_errors |-> {},
     error_bodies |-> {FALSE, TRUE},
     api_errors |-> {401, 403},
     instructions |-> {<<NONE, NONE>>},
     approaches |-> {"REDIRECT"},
     no_location |-> {},
     statuses |-> {<<"ACSP", NONE>>},
     cancellation_approaches |-> {"NONE"},
     callbacks |-> {NoCallback},
     confirms |-> {NONE},
     cancellation_reasons |-> {"ORDERED_BY_PSU"}]

InitRetry == InitWith(ConfigsRetry)

NextRetry ==
    \/ CreateAndValidatePayment(ScopeRetry)
    \/ CheckPaymentDuringCreation
    \/ RefreshPayment
    \/ CancelPayment(ScopeRetry)
    \/ CheckPaymentDuringCancellation
    \/ Respond(ScopeRetry)
    \/ Tick
    \/ Restart

SpecRetry == InitRetry /\ [][NextRetry]_vars

-----------------------------------------------------------------------------
(* Properties of the retry on a stale token.                               *)

APIKinds == {"status", "create", "confirm", "cancel"}

Requests(c, kinds) == {i \in DOMAIN c.log : c.log[i].kind \in kinds}
Replays(c) == Requests(c, {"retry"})

\* The call ended by the ClientError of an answer with this HTTP status.
Rejection(c, http) == c.out.type \in ClientErrors /\ c.out.code = ToString(http)

\* The entry points that catch a ClientError and ask should_retry_with_new_token
RetryOps == {"create_and_validate_payment", "check_payment_during_creation",
             "refresh_payment", "check_payment_during_cancellation"}

\* The call that ends in this step is one of the four, on the resume path for
\* create_and_validate_payment, and every request it sent to the payment API
\* was answered with 403.
AlwaysForbidden ==
    /\ last'.op \in RetryOps
    /\ last'.op = "create_and_validate_payment" => pay.id # NoId
    /\ cfg.PRE_STEP_TYPE # "NONE"
    /\ Requests(last', APIKinds) # {}
    /\ \A i \in Requests(last', APIKinds) : last'.log[i].http = 403

\* C8 as stated: when every payment-API request is answered with 403 and the
\* pre-step type is not NONE, each of the four entry points ends by
\* propagating the rejection after exactly one token request and exactly one
\* replay.
C8_AsStated ==
    [][AlwaysForbidden =>
          /\ Rejection(last', 403)
          /\ Cardinality(Requests(last', {"token"})) = 1
          /\ Cardinality(Replays(last')) = 1]_vars

\* The call starts with a token of Session State that has not expired, on an
\* instance that has not obtained a token itself.
StartsWithReusedToken ==
    /\ ~new_token
    /\ st.oauth_token # NONE
    /\ \/ st.oauth_token_expires_at = NoTime
       \/ ~is_token_expired(st.oauth_token_expires_at)

GrantedUnexpired(c) ==
    \A i \in Requests(c, {"token"}) : c.log[i].ttl = NoTime \/ c.log[i].ttl > 0

\* C8, amended: under the same conditions the entry point ends by
\* propagating the rejection after at most one replay and at most three
\* token requests; there is exactly one replay when the call starts with an
\* unexpired token of Session State on an instance that has not obtained a
\* token itself, and then exactly one token request when the token granted
\* is not expired as it is obtained.
C8_RetryBound ==
    [][AlwaysForbidden =>
          /\ Rejection(last', 403)
          /\ Cardinality(Replays(last')) <= 1
          /\ Cardinality(Requests(last', {"token"})) <= 3
          /\ StartsWithReusedToken =>
                /\ Cardinality(Replays(last')) = 1
                /\ GrantedUnexpired(last') =>
                      Cardinality(Requests(last', {"token"})) = 1]_vars

\* A call answered with 403 throughout replayed once and propagated the
\* rejection after two token requests.
C8_Witness ==
    /\ last.op \in RetryOps
    /\ cfg.PRE_STEP_TYPE # "NONE"
    /\ Requests(last, APIKinds) # {}
    /\ \A i \in Requests(last, APIKinds) : last.log[i].http = 403
    /\ Rejection(last, 403)
    /\ Cardinality(Replays(last)) = 1
    /\ Cardinality(Requests(last, {"token"})) = 2

\* Whether request i of call c is sent from inside a try block that asks
\* should_retry_with_new_token.
Wrapped(c, i) ==
    \/ c.op \in RetryOps \ {"create_and_validate_payment"}
    \/ /\ c.op = "create_and_validate_payment"
       /\ \E j \in 1..(i - 1) : c.log[j].kind = "resume"
       /\ \A j \in 1..(i - 1) : c.log[j].kind # "final_check"

Rejections(c) == {i \in Requests(c, APIKinds) : c.log[i].http \in {401, 403}}
FirstRejection(c) == CHOOSE i \in Rejections(c) : \A j \in Rejections(c) : i <= j

\* After the rejection at i: a new pre-step token and one replay.
RetriedOnce(c, i) ==
    /\ Cardinality(Replays(c)) = 1
    /\ i + 2 <= Len(c.log)
    /\ c.log[i + 1].kind = "retry"
    /\ c.log[i + 2].kind = "token"
    /\ c.log[i + 2].arg = "client_credentials"

\* The rejection at i ends the call: no token, no replay.
Propagated(c, i) ==
    /\ Replays(c) = {}
    /\ \A j \in Requests(c, APIKinds \cup {"token"}) : j <= i
    /\ Rejection(c, c.log[i].http)

\* C9: an auth rejection received with a token that was not obtained in this
\* round, on the payment-creation request, on the final status check of
\* create_and_validate_payment or on a request of cancel_payment, makes the
\* engine obtain a new pre-step token and replay the operation once.
C9_RetryCoversEveryCall ==
    [][\A i \in Requests(last', APIKinds) :
          (/\ cfg.PRE_STEP_TYPE # "NONE"
           /\ last'.log[i].http = 403
           /\ ~last'.log[i].fresh
           /\ \/ last'.op = "cancel_payment"
              \/ /\ last'.op = "create_and_validate_payment"
                 /\ ~Wrapped(last', i)) =>
             RetriedOnce(last', i)]_vars

-----------------------------------------------------------------------------
(* Resumption on a new instance.                                           *)

\* dump_state: Session State as a key-value document
dump_state(state) == [k \in DOMAIN state |-> state[k]]

\* setup: Session State read from a document, a field the document lacks
\* taking its default
setup(state) ==
    [k \in DOMAIN InitialState |->
        IF k \in DOMAIN state THEN state[k] ELSE InitialState[k]]

\* A new instance set up from the dump of this one, at the start of a call:
\* it is on no page and its new_token is the default of the class.
FreshInstance(conf, hist) ==
    [Machine(conf, hist) EXCEPT !.st = setup(dump_state(st)),
                                !.page = NoPage,
                                !.new_token = FALSE]

\* The requests of a log, as the bank and the token endpoint see them
Wire(log) ==
    Let(SelectSeq(log, LAMBDA e : e.kind \in APIKinds \cup {"token"}), LAMBDA q :
        [i \in DOMAIN q |-> <<q[i].kind, q[i].arg>>])

\* Two runs that got the same answers did the same: same requests, same
\* request awaited or same outcome, same Session State.
SameRun(a, b) ==
    /\ a.ctl = b.ctl
    /\ a.exc = b.exc
    /\ a.pend = b.pend
    /\ Wire(a.log) = Wire(b.log)
    /\ a.st = b.st

CallsSession ==
    {[reason |-> NONE, confirm |-> c, auth_uri |-> u, rnd |-> 1] :
        u \in ScopeSession.callbacks, c \in ScopeSession.confirms}

\* C11: for every Session State, configuration and behaviour of the bank,
\* create_and_validate_payment called on a new instance set up from the dump
\* of Session State sends the same requests, ends with the same outcome and
\* leaves the same Session State as the same call on the instance that was
\* dumped.
C11_ReloadedInstanceAgrees ==
    /\ call.op = "idle" =>
          \A conf \in CallsSession :
              SameRun(create_and_validate_payment(Machine(conf, <<>>)),
                      create_and_validate_payment(FreshInstance(conf, <<>>)))
    /\ call.op = "create_and_validate_payment" =>
          \A a \in Answers(Exec(call.op, call.conf, call.hist).pend, ScopeSession) :
              SameRun(create_and_validate_payment(
                          Machine(call.conf, Append(call.hist, a.ans))),
                      create_and_validate_payment(
                          FreshInstance(call.conf, Append(call.hist, a.ans))))

-----------------------------------------------------------------------------
(* Repeated status checks.                                                 *)

TokenFields == {"oauth_token", "oauth_token_type", "oauth_token_expires_at",
                "oauth_refresh_token"}

NonToken(state) == [k \in DOMAIN state \ TokenFields |-> state[k]]

Outcome(m) == IF m.ctl = "exc" THEN m.exc ELSE OK

\* The outcomes of a request that failed
RequestFailures == ClientErrors \cup {"BrowserUnavailable"}

\* What a call left of the instance, for the call that follows it
After(m) ==
    [Machine(NoConf, <<>>) EXCEPT !.st = m.st, !.pay = m.pay, !.page = m.page,
                                  !.new_token = m.new_token]

\* The bank of a session, which also rejects requests and grants tokens
\* that expire
ScopeRepeat ==
    [ScopeSession EXCEPT !.ttls = {NoTime, 0}, !.refresh_tokens = {NONE, "rt"},
                         !.api_errors = {403}]

\* The runs of check_payment_during_creation called on the instance m0
\* while the bank status is as it is, for the answers the bank may give
\* after hist; with ok_only, for the answers that are no failures.
RECURSIVE Checks(_, _, _)
Checks(m0, hist, ok_only) ==
    Let(check_payment_during_creation([m0 EXCEPT !.hist = hist]), LAMBDA r :
        IF r.ctl # "need" THEN {r}
        ELSE UNION {Checks(m0, Append(hist, a.ans), ok_only) :
                       a \in {x \in Answers(r.pend, ScopeRepeat) :
                                 ok_only => x.ans.http < 400}})

-----------------------------------------------------------------------------
(* The status decoder on every raw status: every redirect flow, with and   *)
(* without automatic confirmation, a bank that reports every status with   *)
(* every reason, a caller who confirms or not.                             *)

RedirectFlows == {"SIMPLE", "SIMPLE_WITHOUT_CONFIRMATION", "SIMPLE_WITH_AUTH_FACTOR"}
                     \cup OAuthFlows

ConfigsDecoder ==
    {[DefaultConfig EXCEPT !.VALIDATION_REDIRECT_FLOW = f,
                           !.VALIDATION_MAY_HAVE_AUTOMATIC_CONFIRMATION = a] :
        f \in RedirectFlows, a \in BOOLEAN}

\* A reason code that VALIDATION_ERROR_CODE_MAPPING does not know
UnknownReason == "ZZ99"

RawReasons == DOMAIN VALIDATION_ERROR_CODE_MAPPING \cup {NONE, UnknownReason}

RawStatuses ==
    {<<"RJCT", r>> : r \in RawReasons}
        \cup {<<"CANC", r>> : r \in {NONE, "DS02", UnknownReason}}
        \cup {<<s, NONE>> : s \in {"RCVD", "ACTC", "ACCO", "ACCP", "ACSP", "ACSC",
                                   "PDNG"}}

ScopeDecoder ==
    [ttls |-> {NoTime},
     refresh_tokens |-> {NONE},
     token_errors |-> {},
     error_bodies |-> {FALSE},
     api_errors |-> {},
     instructions |-> {<<NONE, NONE>>},
     approaches |-> {"REDIRECT", "DECOUPLED"},
     no_location |-> {},
     statuses |-> RawStatuses,
     cancellation_approaches |-> {"NONE"},
     callbacks |-> {NoCallback},
     confirms |-> {NONE, "true"},
     cancellation_reasons |-> {"ORDERED_BY_PSU"}]

InitDecoder == InitWith(ConfigsDecoder)

NextDecoder ==
    \/ CreateAndValidatePayment(ScopeDecoder)
    \/ CheckCurrentValidationStatus
    \/ Respond(ScopeDecoder)
    \/ BankStep(ScopeDecoder)
    \/ Restart

SpecDecoder == InitDecoder /\ [][NextDecoder]_vars

-----------------------------------------------------------------------------
(* Properties of the status decoder.  When a call of the decoder has       *)
(* ended, the page the browser is on carries the status data it decoded.   *)

Decoded == last.op = "check_current_validation_status"

C15_DecoderIsPure ==
    [][last'.op = "check_current_validation_status" =>
          /\ st' = st
          /\ pay' = pay
          /\ Requests(last', APIKinds \cup {"token"}) = {}]_vars

-----------------------------------------------------------------------------
(* The end-to-end run of a validation in the flow SIMPLE: the PSU          *)
(* authenticates, the bank accepts the payment, the caller confirms, the   *)
(* bank executes it.                                                       *)

ConfigsScenario ==
    {[DefaultConfig EXCEPT !.UNSAFE_CONFIRMATIONS = u,
                           !.VALIDATION_MAY_HAVE_AUTOMATIC_CONFIRMATION = a,
                           !.VALIDATION_CONFIRMATION_STATUS_REQUIRED = r] :
        u \in BOOLEAN, a \in BOOLEAN, r \in BOOLEAN}

ScopeScenario ==
    [ttls |-> {NoTime},
     refresh_tokens |-> {NONE},
     token_errors |-> {},
     error_bodies |-> {FALSE},
     api_errors |-> {},
     instructions |-> {<<NONE, NONE>>},
     approaches |-> {"REDIRECT"},
     no_location |-> {},
     statuses |-> {<<"ACTC", NONE>>, <<"ACCP", NONE>>, <<"ACSC", NONE>>},
     cancellation_approaches |-> {"NONE"},
     callbacks |-> {NoCallback, SKIPPED, Url(NONE, NONE, NONE, NONE, NONE)},
     confirms |-> {NONE, "true"},
     cancellation_reasons |-> {"ORDERED_BY_PSU"}]

InitScenario == InitWith(ConfigsScenario)

NextScenario ==
    \/ CreateAndValidatePayment(ScopeScenario)
    \/ Respond(ScopeScenario)
    \/ BankStep(ScopeScenario)
    \/ Restart

SpecScenario == InitScenario /\ [][NextScenario]_vars

\* The steps of the run, for the call that ends in this step.  The page the
\* call leaves carries the status the bank reported last: to the status
\* check of a call that sent no confirmation, in the answer to the
\* confirmation otherwise.
ValidationsCleared(state) ==
    /\ state.payment_nonce = NONE
    /\ state.pkce_verifier = NONE
    /\ state.oauth_authorisation_code = NONE
    /\ state.psu_auth_factor = NONE
    /\ state.validation_approach = "NONE"
    /\ ~state.oauth_token_to_be_requested
    /\ ~state.validation_confirmation_required
    /\ ~state.validation_confirmed

\* A payment is created and its validation, by redirect, is not over.
InValidation == pay.id # NoId /\ st.validation_approach = "REDIRECT"

\* The settings of the class that the run depends on, as the class has them
DefaultSettings ==
    /\ cfg.VALIDATION_MAY_HAVE_AUTOMATIC_CONFIRMATION
           = DefaultConfig.VALIDATION_MAY_HAVE_AUTOMATIC_CONFIRMATION
    /\ cfg.VALIDATION_CONFIRMATION_STATUS_REQUIRED
           = DefaultConfig.VALIDATION_CONFIRMATION_STATUS_REQUIRED

ScenarioSteps(amended) ==
    (last'.op = "create_and_validate_payment" /\ (amended => DefaultSettings)) =>
        \* the creation
        /\ (pay.id = NoId /\ Requests(last', {"create"}) # {}) =>
              /\ pay'.id = bank'.created
              /\ st'.validation_approach = "REDIRECT"
              /\ last'.out.type = "PaymentRedirect"
        \* the PSU has not authenticated yet
        /\ (/\ InValidation /\ last'.conf.confirm = NONE
            /\ page'.status = "ACTC") =>
              last'.out.type = "PaymentSameInteraction"
        \* the bank has accepted the payment
        /\ (/\ InValidation /\ last'.conf.confirm = NONE
            /\ ~st.validation_confirmed
            /\ amended => last'.conf.auth_uri # NoCallback
            /\ page'.status = "ACCP") =>
              /\ last'.out.type = "PaymentConfirmationRequired"
              /\ st'.validation_confirmation_required
        \* the caller confirms
        /\ (/\ InValidation /\ last'.conf.confirm = "true"
            /\ st.validation_confirmation_required
            /\ ~st.validation_confirmed) =>
              \/ Cardinality(Requests(last', {"confirm"})) = 1
              \/ /\ Requests(last', {"confirm"}) = {}
                 /\ page'.status = "ACSC"
        \* the bank has executed the payment
        /\ (/\ InValidation /\ last'.conf.confirm = "true"
            /\ Requests(last', {"confirm"}) # {}
            /\ page'.status = "ACSC") =>
              /\ last'.out = OK
              /\ ValidationsCleared(st')

-----------------------------------------------------------------------------
(* The five redirect flows, with and without UNSAFE_CONFIRMATIONS and      *)
(* UNSAFE_URL_ERROR_DETECTION: the PSU comes back with or without the      *)
(* parameter the flow expects, the caller confirms, refuses or says        *)
(* nothing.                                                                *)

ConfigsFlows ==
    {[DefaultConfig EXCEPT !.VALIDATION_REDIRECT_FLOW = f,
                           !.UNSAFE_CONFIRMATIONS = u,
                           !.UNSAFE_URL_ERROR_DETECTION = d] :
        f \in RedirectFlows, u \in BOOLEAN, d \in BOOLEAN}
    \cup
    {[DefaultConfig EXCEPT !.UNSAFE_CONFIRMATIONS = u,
                           !.VALIDATION_CONFIRMATION_STATUS_REQUIRED = FALSE] :
        u \in BOOLEAN}

ScopeFlows ==
    [ttls |-> {NoTime},
     refresh_tokens |-> {NONE},
     token_errors |-> {},
     error_bodies |-> {FALSE},
     api_errors |-> {},
     instructions |-> {<<NONE, NONE>>},
     approaches |-> {"REDIRECT"},
     no_location |-> {},
     statuses |-> {<<"ACTC", NONE>>, <<"ACCO", NONE>>, <<"ACCP", NONE>>,
                   <<"ACSC", NONE>>, <<"RJCT", "AC01">>},
     cancellation_approaches |-> {"NONE"},
     callbacks |-> {NoCallback, SKIPPED,
                    Url("c1", "f1", NONE, NONE, NONE),
                    Url("c2", "f2", NONE, NONE, NONE),
                    Url(NONE, NONE, NONE, NONE, NONE),
                    Url(NONE, NONE, "access_denied", NONE, "refused")},
     confirms |-> {NONE, "true", "false"},
     cancellation_reasons |-> {"ORDERED_BY_PSU"}]

InitFlows == InitWith(ConfigsFlows)

NextFlows ==
    \/ CreateAndValidatePayment(ScopeFlows)
    \/ CheckPaymentDuringCreation
    \/ Respond(ScopeFlows)
    \/ BankStep(ScopeFlows)
    \/ Restart

SpecFlows == InitFlows /\ [][NextFlows]_vars

-----------------------------------------------------------------------------
(* Properties of the redirect flows.  A call that sent no confirmation     *)
(* request leaves the browser on the page whose status it decoded.         *)

Refused == Exc("PaymentValidationError", "CONFIRMATION_REFUSED", "")

ResumedWith(confirm) ==
    /\ last'.op = "create_and_validate_payment"
    /\ pay.id # NoId
    /\ last'.conf.confirm = confirm

\* What check_current_validation_status makes of a raw status: it returns
\* (the PSU is awaited) or asks for the confirmation.
AwaitsPSU(status, state) ==
    \/ status \in {"RCVD", "ACTC"}
    \/ /\ status \in {"ACCP", "ACSP"}
       /\ ~cfg.VALIDATION_MAY_HAVE_AUTOMATIC_CONFIRMATION
       /\ ~state.validation_confirmed
       /\ ~ /\ state.validation_approach = "REDIRECT"
            /\ cfg.VALIDATION_REDIRECT_FLOW \in {"SIMPLE", "SIMPLE_WITHOUT_CONFIRMATION"}

NeedsConfirmation(status, state) ==
    \/ status = "ACCO"
    \/ /\ status \in {"ACCP", "ACSP"}
       /\ ~cfg.VALIDATION_MAY_HAVE_AUTOMATIC_CONFIRMATION
       /\ ~state.validation_confirmed
       /\ state.validation_approach = "REDIRECT"
       /\ cfg.VALIDATION_REDIRECT_FLOW = "SIMPLE"

NothingToResumeWith(callback_url) ==
    \/ callback_url = NoCallback
    \/ /\ cfg.VALIDATION_REDIRECT_FLOW \in OAuthFlows
       /\ callback_url = SKIPPED \/ callback_url.code = NONE
    \/ /\ cfg.VALIDATION_REDIRECT_FLOW = "SIMPLE_WITH_AUTH_FACTOR"
       /\ callback_url = SKIPPED \/ callback_url.factor = NONE

TokenBeforeResume(c) ==
    \A i \in Requests(c, {"token"}) :
        \E j \in Requests(c, {"resume"}) : i < j

\* C18: a resumption without confirm instruction, on a status that decodes
\* as awaiting the PSU, with no callback, or the skipped sentinel or a
\* callback without the parameter of the flow (flows with a code or a
\* factor), error markers or not, signals same-interaction, leaves Session
\* State as it was when the resumption began, exchanges no code for a token
\* and sends no confirmation request.  The only token request such a call
\* may send is the one of the pre-step, before the resumption begins, when
\* Session State holds no token.
C18_NothingToResumeWith ==
    [][(/\ ResumedWith(NONE)
        /\ InValidation
        /\ ~Frozen
        /\ AwaitsPSU(page'.status, st)
        /\ NothingToResumeWith(last'.conf.auth_uri)) =>
          /\ last'.out = Exc("PaymentSameInteraction", NONE, NONE)
          /\ NonToken(st') = NonToken(st)
          /\ Requests(last', {"confirm", "code", "factor"}) = {}
          /\ TokenBeforeResume(last')
          /\ st.oauth_token # NONE =>
                st' = st /\ Requests(last', {"token"}) = {}]_vars

\* The PSU came back with error markers and without authorisation code, the
\* engine looks for errors in callbacks, the bank still awaits the PSU.
C18_Witness ==
    /\ last.op = "create_and_validate_payment"
    /\ last.conf.confirm = NONE
    /\ last.conf.auth_uri.kind = "url"
    /\ last.conf.auth_uri.error # NONE
    /\ cfg.UNSAFE_URL_ERROR_DETECTION
    /\ cfg.VALIDATION_REDIRECT_FLOW \in OAuthFlows
    /\ page.status = "ACTC"
    /\ pay.id # NoId
    /\ Requests(last, {"resume"}) # {}
    /\ last.out.type = "PaymentSameInteraction"

\* The values the call gave to its token exchanges and to its confirmation
\* requests.
ValuesSent(c, kind) == {c.log[i].arg : i \in Requests(c, {kind})}

StashFlows == {"OAUTH_AUTHORISATION_CODE_WITHOUT_CONFIRMATION",
               "SIMPLE_WITH_AUTH_FACTOR"}

\* The parameter the flow expects in the callback.
Expected(callback_url) ==
    IF cfg.VALIDATION_REDIRECT_FLOW \in OAuthFlows THEN callback_url.code
    ELSE callback_url.factor

\* C19: with UNSAFE_CONFIRMATIONS, a call whose caller did not pass
\* confirm = true sends no confirmation request; in the flows
\* OAUTH_AUTHORISATION_CODE_WITHOUT_CONFIRMATION and SIMPLE_WITH_AUTH_FACTOR
\* a callback with the expected parameter has the value stashed in Session
\* State and confirmation-required raised, with no token exchange and no
\* confirmation; and a call that confirms exchanges or submits, once, the
\* value stashed in Session State and no other, whatever callback it is
\* given (in the flow without confirmation, with no confirmation request).
C19_UnsafeConfirmations ==
    [][(cfg.UNSAFE_CONFIRMATIONS /\ last'.op # NoCall.op) =>
          /\ last'.conf.confirm # "true" => Requests(last', {"confirm"}) = {}
          /\ (/\ ResumedWith(NONE)
              /\ InValidation
              /\ ~Frozen
              /\ cfg.VALIDATION_REDIRECT_FLOW \in StashFlows
              /\ AwaitsPSU(page'.status, st)
              /\ last'.conf.auth_uri.kind = "url"
              /\ Expected(last'.conf.auth_uri) # NONE) =>
                /\ last'.out.type = "PaymentConfirmationRequired"
                /\ Requests(last', {"confirm", "code", "factor"}) = {}
                /\ NonToken(st') =
                      NonToken(
                          IF cfg.VALIDATION_REDIRECT_FLOW \in OAuthFlows
                          THEN [st EXCEPT
                                  !.oauth_authorisation_code = last'.conf.auth_uri.code,
                                  !.oauth_token_to_be_requested = TRUE,
                                  !.validation_confirmation_required = TRUE]
                          ELSE [st EXCEPT
                                  !.psu_auth_factor = last'.conf.auth_uri.factor,
                                  !.validation_confirmation_required = TRUE])
          /\ (ResumedWith("true") /\ cfg.VALIDATION_REDIRECT_FLOW \in StashFlows) =>
                IF cfg.VALIDATION_REDIRECT_FLOW \in OAuthFlows
                THEN /\ ValuesSent(last', "code") \subseteq
                            IF /\ st.oauth_token_to_be_requested
                               /\ st.oauth_authorisation_code # NONE
                            THEN {st.oauth_authorisation_code} ELSE {}
                     /\ Cardinality(Requests(last', {"code"})) <= 1
                     /\ Requests(last', {"confirm"}) = {}
                ELSE /\ ValuesSent(last', "factor") \subseteq {st.psu_auth_factor}
                     /\ Cardinality(Requests(last', {"confirm"})) =
                            Cardinality(Requests(last', {"factor"}))
                     /\ Cardinality(Requests(last', {"confirm"})) <= 1]_vars

\* The caller confirms with another callback than the one whose value was
\* stashed: the value stashed is the one sent.
C19_Witness ==
    /\ cfg.UNSAFE_CONFIRMATIONS
    /\ cfg.VALIDATION_REDIRECT_FLOW = "OAUTH_AUTHORISATION_CODE_WITHOUT_CONFIRMATION"
    /\ last.op = "create_and_validate_payment"
    /\ last.conf.confirm = "true"
    /\ last.conf.auth_uri.kind = "url"
    /\ Expected(last.conf.auth_uri) # NONE
    /\ ValuesSent(last, "code") \cup ValuesSent(last, "factor") # {}
    /\ Expected(last.conf.auth_uri) \notin
           ValuesSent(last, "code") \cup ValuesSent(last, "factor")

WithoutConfirmation == {"SIMPLE_WITHOUT_CONFIRMATION",
                        "OAUTH_AUTHORISATION_CODE_WITHOUT_CONFIRMATION"}

\* C20: in the flows without confirmation, SIMPLE_WITHOUT_CONFIRMATION and
\* OAUTH_AUTHORISATION_CODE_WITHOUT_CONFIRMATION, no call sends a
\* confirmation request to the bank, whatever the caller sets confirm to.
C20_NoConfirmationWithout ==
    [][cfg.VALIDATION_REDIRECT_FLOW \in WithoutConfirmation =>
          Requests(last', {"confirm"}) = {}]_vars

\* Session State records an authorisation code that is not waiting for its
\* exchange: the callback branch stored it and exchanged it in the same call,
\* or the confirm branch exchanged the stashed code.
Exchanged(state) ==
    /\ state.oauth_authorisation_code # NONE
    /\ ~state.oauth_token_to_be_requested

\* C21: over the calls of create_and_validate_payment for one payment an
\* authorisation code goes to the token endpoint at most once: a call does
\* not exchange the same code twice, and a call made once the code recorded
\* in Session State has been exchanged does not exchange that code again,
\* whatever callback it is given.
C21_CodeExchangedOnce ==
    [][last'.op = "create_and_validate_payment" =>
          /\ Cardinality(Requests(last', {"code"})) <= 1
          /\ Exchanged(st) =>
                st.oauth_authorisation_code \notin ValuesSent(last', "code")]_vars

Skipped == Exc("PaymentInteractionSkipped", NONE, NONE)

C23_CreationCall ==
    [][(last'.op = "create_and_validate_payment" /\ pay.id = NoId) =>
          /\ last'.out # OK
          /\ st'.validation_approach = "REDIRECT" =>
                /\ last'.out =
                      Exc("PaymentRedirect",
                          IF cfg.VALIDATION_REDIRECT_FLOW \in
                                {"SIMPLE", "SIMPLE_WITHOUT_CONFIRMATION"}
                          THEN "can_skip" ELSE "no_skip", NONE)
                /\ pay'.id = bank'.created
          /\ st'.validation_approach \notin {"NONE", "REDIRECT"} =>
                /\ last'.out = Exc("NotImplementedError", NONE, NONE)
                /\ pay'.id = bank'.created]_vars

\* The bank chose the decoupled approach: the payment exists and the call
\* ended with the fatal error.
C23_Witness ==
    /\ last.op = "create_and_validate_payment"
    /\ Requests(last, {"create"}) # {}
    /\ st.validation_approach = "DECOUPLED"
    /\ pay.id # NoId
    /\ last.out.type = "NotImplementedError"

-----------------------------------------------------------------------------
(* Cancellation: a payment is created, then cancelled in each of the five  *)
(* redirect flows; the bank chooses the approach of the cancellation,      *)
(* moves the payment, and may fail to answer.                              *)

ConfigsCancel ==
    {[DefaultConfig EXCEPT !.CANCELLATION_REDIRECT_FLOW = f] :
        f \in RedirectFlows}

ScopeCancel ==
    [ttls |-> {NoTime},
     refresh_tokens |-> {NONE},
     token_errors |-> {400},
     error_bodies |-> {FALSE},
     api_errors |-> {500},
     instructions |-> {<<NONE, NONE>>},
     approaches |-> {"REDIRECT"},
     no_location |-> {},
     statuses |-> {<<"ACSP", NONE>>, <<"PDNG", NONE>>, <<"ACSC", NONE>>,
                   <<"RJCT", "DS02">>, <<"CANC", NONE>>},
     cancellation_approaches |-> {"NONE", "REDIRECT"},
     callbacks |-> {NoCallback, Url("c1", "f1", NONE, NONE, NONE)},
     confirms |-> {NONE, "true"},
     cancellation_reasons |-> {"ORDERED_BY_PSU", "FRAUD"}]

PaymentOf(n) ==
    [n |-> n, id |-> NoId,
     instr |-> [i \in 1..n |-> [status |-> "NONE", reason |-> "NONE"]]]

InitCancel ==
    /\ cfg \in ConfigsCancel
    /\ st = InitialState
    /\ pay \in {PaymentOf(n) : n \in 1..MaxInstr}
    /\ page = NoPage
    /\ new_token = FALSE
    /\ bank = [status |-> NONE, reason |-> NONE, created |-> 0]
    /\ now = 0
    /\ call = Idle
    /\ last = NoCall

NextCancel ==
    \/ CreateAndValidatePayment(ScopeCancel)
    \/ CancelPayment(ScopeCancel)
    \/ Respond(ScopeCancel)
    \/ BankStep(ScopeCancel)
    \/ Restart

SpecCancel == InitCancel /\ [][NextCancel]_vars

-----------------------------------------------------------------------------
(* Properties of cancellation.                                             *)

Cancelled == last'.op = "cancel_payment"

\* Session State holds what create_payment generated for the payment.
Cancellable(state) ==
    /\ state.payment_information_id # NoId
    /\ state.payment_creation_date # NoTime
    /\ state.payment_instruction_ids # <<>>

PastChecks ==
    /\ Cancelled
    /\ last'.conf.reason \in DOMAIN CANCELLATION_REASON_MAPPING
    /\ Cancellable(st)

\* C24: cancel_payment fails before any request and without a change of
\* Session State, with code OTHER when the reason is not in
\* CANCELLATION_REASON_MAPPING (where ORDERED_BY_PSU maps to DS02), and with
\* code NOT_CANCELLABLE when the reason is in the table and Session State
\* lacks the creation date, the payment-information id or the instruction
\* ids.
C24_RejectedUpFront ==
    [][(Cancelled /\ ~PastChecks) =>
          /\ CANCELLATION_REASON_MAPPING["ORDERED_BY_PSU"] = "DS02"
          /\ last'.out.type = "PaymentCancellationError"
          /\ last'.out.code =
                IF last'.conf.reason \notin DOMAIN CANCELLATION_REASON_MAPPING
                THEN "OTHER" ELSE "NOT_CANCELLABLE"
          /\ last'.log = <<>>
          /\ st' = st
          /\ pay' = pay]_vars

\* A cancellation for a reason of the table, asked of an instance whose
\* Session State never saw the creation of a payment.
C24_Witness ==
    /\ last.op = "cancel_payment"
    /\ last.conf.reason = "ORDERED_BY_PSU"
    /\ ~Cancellable(st)
    /\ last.out.code = "NOT_CANCELLABLE"

\* The flow of the cancellation is over: the final status check decoded a
\* status, or a confirmation request was accepted.
FlowEnded(c) ==
    \/ \E i \in Requests(c, {"final"}) : TRUE
    \/ \E i \in Requests(c, {"confirm"}) : c.log[i].http = 200

\* C25: cancel_payment returns normally only when its final status check
\* found the status RJCT or CANC; when the flow is over and the status is
\* still PDNG or ACSP the call ends with AssertionError, neither normally
\* nor with an interaction signal.
C25_CancelledOrAbort ==
    [][Cancelled =>
          /\ last'.out = OK =>
                /\ Logged(Ev("final", "cancelled"))'
                /\ page'.status \in {"RJCT", "CANC"}
          /\ (FlowEnded(last') /\ page'.status \in {"PDNG", "ACSP"}) =>
                last'.out = Exc("AssertionError", NONE, NONE)]_vars

\* The caller confirmed, the bank accepted the confirmation and still
\* reports the payment as pending.
C25_Witness ==
    /\ last.op = "cancel_payment"
    /\ \E i \in Requests(last, {"confirm"}) : last.log[i].http = 200
    /\ page.status = "PDNG"
    /\ last.out.type = "AssertionError"

\* C26: when cancel_payment, past its first checks, ends with an exception
\* that is not an interaction signal, the validation fields of Session
\* State are reset when the exception reaches the caller; when it ends with
\* an interaction signal the call has not reset them.
C26_ResetOnFailure ==
    [][PastChecks =>
          /\ (last'.out # OK /\ last'.out.type \notin Interactions) =>
                ValidationsCleared(st')
          /\ last'.out.type \in Interactions =>
                Requests(last', {"reset_validation"}) = {}]_vars

\* C27: whenever cancel_payment returns normally, the validation fields of
\* Session State are cleared: validation_approach NONE, no nonce, no PKCE
\* verifier, no authorisation code, no PSU authentication factor.
C27_ClearedAfterCancel ==
    [][(Cancelled /\ last'.out = OK) =>
          /\ st'.validation_approach = "NONE"
          /\ st'.payment_nonce = NONE
          /\ st'.pkce_verifier = NONE
          /\ st'.oauth_authorisation_code = NONE
          /\ st'.psu_auth_factor = NONE]_vars

Ids(state) ==
    <<state.payment_creation_date, state.payment_information_id,
      state.payment_instruction_ids>>

Created == last'.op = "create_and_validate_payment" /\ Requests(last', {"create"}) # {}

\* C28: the creation request is built with the creation date, the
\* payment-information id and the instruction ids that the creation leaves
\* in Session State, one instruction id per instruction; a cancellation
\* request is built with those that Session State holds; and no call other
\* than the one that sends the creation request changes them in Session
\* State.
C28_SameIdentifiers ==
    [][/\ Created =>
             /\ ValuesSent(last', "payload") =
                   {Payload(st'.payment_creation_date, st'.payment_information_id,
                            st'.payment_instruction_ids)}
             /\ Len(st'.payment_instruction_ids) = pay.n
       /\ (Cancelled /\ Requests(last', {"cancel"}) # {}) =>
             /\ ValuesSent(last', "payload") =
                   {Payload(st.payment_creation_date, st.payment_information_id,
                            st.payment_instruction_ids)}
             /\ Len(st.payment_instruction_ids) = pay.n
       /\ Ids(st') # Ids(st) => Created]_vars

\* A payment of two instructions is cancelled: the cancellation request was
\* sent, and the validation fields were reset since.
C28_Witness ==
    /\ last.op = "cancel_payment"
    /\ Requests(last, {"cancel"}) # {}
    /\ Requests(last, {"reset_validation"}) # {}
    /\ pay.n = 2
    /\ Len(st.payment_instruction_ids) = 2

-----------------------------------------------------------------------------
(* The pre-step check: tokens with and without expiry and refresh token,   *)
(* obtained by the pre-step or by a validation flow, while time passes.    *)

ConfigsPreStep ==
    {DefaultConfig,
     [DefaultConfig EXCEPT !.VALIDATION_REDIRECT_FLOW = "OAUTH_AUTHORISATION_CODE"],
     [DefaultConfig EXCEPT !.PRE_STEP_TYPE = "NONE",
                           !.VALIDATION_REDIRECT_FLOW = "OAUTH_AUTHORISATION_CODE"]}

ScopePreStep ==
    [ttls |-> {NoTime, 0, TokenTTL},
     refresh_tokens |-> {NONE, "rt"},
     token_errors |-> {400},
     error_bodies |-> {FALSE},
     api_errors |-> {},
     instructions |-> {<<NONE, NONE>>},
     approaches |-> {"REDIRECT"},
     no_location |-> {},
     statuses |-> {<<"ACTC", NONE>>},
     cancellation_approaches |-> {"NONE"},
     callbacks |-> {NoCallback, Url("c1", NONE, NONE, NONE, NONE)},
     confirms |-> {NONE},
     cancellation_reasons |-> {"ORDERED_BY_PSU"}]

InitPreStep == InitWith(ConfigsPreStep)

NextPreStep ==
    \/ CheckPreStep
    \/ CreateAndValidatePayment(ScopePreStep)
    \/ Respond(ScopePreStep)
    \/ Tick
    \/ Restart

SpecPreStep == InitPreStep /\ [][NextPreStep]_vars

\* Session State holds a token that has no expiry or is not expired.
ValidToken(state) ==
    /\ state.oauth_token # NONE
    /\ \/ state.oauth_token_expires_at = NoTime
       \/ ~is_token_expired(state.oauth_token_expires_at)

\* C29: check_pre_step sends no token request and leaves the four token
\* fields as they are when Session State holds a token that has no expiry
\* or is not expired; in every other case it sends at most one token
\* request; when the pre-step is the client credentials grant and the check
\* returns normally, Session State holds a token.  It changes no other
\* field of Session State and sends no other request.
C29_PreStep ==
    [][last'.op = "check_pre_step" =>
          /\ ValidToken(st) =>
                /\ Requests(last', {"token"}) = {}
                /\ \A f \in TokenFields : st'[f] = st[f]
          /\ Cardinality(Requests(last', {"token"})) <= 1
          /\ (cfg.PRE_STEP_TYPE = "OAUTH_CLIENT" /\ last'.out = OK) =>
                st'.oauth_token # NONE
          /\ NonToken(st') = NonToken(st)
          /\ Requests(last', APIKinds) = {}]_vars

\* The check found an expired token that came with a refresh token, and
\* refreshed it.
C29_Witness ==
    /\ last.op = "check_pre_step"
    /\ last.out = OK
    /\ \E i \in DOMAIN last.log :
           last.log[i].kind = "token" /\ last.log[i].arg = "refresh_token"
    /\ st.oauth_token = "refresh_token"

-----------------------------------------------------------------------------
(* The delay buffer switched off: the configurations of SpecDelay and the  *)
(* one without unsafe URL error detection.                                 *)

ConfigsNoDelay == ConfigsDelay \cup {DefaultConfig}

InitNoDelay == InitWith(ConfigsNoDelay)

SpecNoDelay == InitNoDelay /\ [][NextDelay]_vars

CancellationOps == {"cancel_payment", "check_payment_during_cancellation"}

\* The failure-callback timeout of the flow an entry point belongs to.
TimeoutOf(op) ==
    IF op \in CancellationOps
    THEN cfg.CANCELLATION_FAILURE_CALLBACK_DETECTION_TIMEOUT
    ELSE cfg.VALIDATION_FAILURE_CALLBACK_DETECTION_TIMEOUT

\* A call of this entry point has no delay buffer to hand a failure to.
DelayOff(op) ==
    \/ TimeoutOf(op) = NoTime
    \/ ~cfg.UNSAFE_URL_ERROR_DETECTION
    \/ st.validation_approach # "REDIRECT"

\* C30: if the failure-callback timeout is None, or unsafe URL error
\* detection is disabled, or the validation approach is not redirect, a
\* rejection detected by the resume of a validation is raised in that same
\* call as a validation failure, and no call sets first_failure_at (the
\* timeout being that of the flow the call belongs to).
C30_NoDelay ==
    [][(last'.op # "none" /\ DelayOff(last'.op)) =>
          /\ ~Frozen => st'.first_failure_at = NoTime
          /\ (/\ last'.op \in {"create_and_validate_payment",
                                "check_payment_during_creation"}
              /\ ~Frozen
              /\ Resumed(last') /\ Rejected(last')) =>
                 last'.out.type = "PaymentValidationError"]_vars

\* With detection enabled, no timeout and no callback, a resume found the
\* payment rejected for AC01 and raised the failure at once.
C30_Witness ==
    /\ last.op = "create_and_validate_payment"
    /\ Sent("resume")
    /\ Rejected(last)
    /\ NoCallbackSupplied(last.conf)
    /\ cfg.UNSAFE_URL_ERROR_DETECTION
    /\ cfg.VALIDATION_FAILURE_CALLBACK_DETECTION_TIMEOUT = NoTime
    /\ last.out = FailureOf(RecordOf("AC01"))
    /\ ~Frozen

-----------------------------------------------------------------------------
(* Raw codes the engine has no entry for: a payment and its instructions   *)
(* with documented and undocumented statuses and reasons, refreshed and    *)
(* validated.                                                              *)

UnknownStatus == "XXXX"

ScopeRefresh ==
    [ttls |-> {NoTime},
     refresh_tokens |-> {NONE},
     token_errors |-> {},
     error_bodies |-> {FALSE},
     api_errors |-> {},
     instructions |-> {<<NONE, NONE>>, <<UnknownStatus, NONE>>,
                       <<"RJCT", UnknownReason>>, <<"ACTC", NONE>>},
     approaches |-> {"REDIRECT"},
     no_location |-> {},
     statuses |-> {<<UnknownStatus, NONE>>, <<"RJCT", UnknownReason>>,
                   <<"RJCT", "AC01">>, <<"ACTC", NONE>>, <<"ACSP", NONE>>,
                   <<"ACSC", NONE>>},
     cancellation_approaches |-> {"NONE"},
     callbacks |-> {NoCallback, SKIPPED},
     confirms |-> {NONE, "true"},
     cancellation_reasons |-> {"ORDERED_BY_PSU"}]

InitRefresh == InitWith({DefaultConfig})

NextRefresh ==
    \/ CreateAndValidatePayment(ScopeRefresh)
    \/ CheckPaymentDuringCreation
    \/ RefreshPayment
    \/ Respond(ScopeRefresh)
    \/ BankStep(ScopeRefresh)
    \/ Restart

SpecRefresh == InitRefresh /\ [][NextRefresh]_vars

\* The call decoded an answer of the bank about the payment.
Answered(c) ==
    \E i \in DOMAIN c.log : c.log[i].kind = "status" /\ c.log[i].http = 200

\* The answer carried a status or a reason code the engine has no entry for.
Undocumented(p) == p.status = UnknownStatus \/ p.reason = UnknownReason

ProgrammingErrors == {"NotImplementedError", "AssertionError"}

\* C31: no undocumented status or reason code of the bank makes
\* create_and_validate_payment, check_payment_during_creation or
\* refresh_payment end with a programming error.
C31_NoAbortOnCodes ==
    [][(/\ last'.op \in {"create_and_validate_payment",
                          "check_payment_during_creation", "refresh_payment"}
        /\ Answered(last')
        /\ Undocumented(page')) =>
          last'.out.type \notin ProgrammingErrors]_vars

\* The part of C31 about the two validation entry points.
C31_ValidationDegrades ==
    [][(/\ last'.op \in {"create_and_validate_payment",
                          "check_payment_during_creation"}
        /\ Answered(last')
        /\ Undocumented(page')) =>
          last'.out.type \notin ProgrammingErrors]_vars

-----------------------------------------------------------------------------
(* Properties of the cancellation request.                                 *)

CancelRequests(c) == Requests(c, {"cancel"})

\* The status the first status check of the call decoded.
StatusChecked(c) == Requests(c, {"cancellation_status"}) # {}
FirstStatus(c) ==
    c.log[CHOOSE i \in Requests(c, {"cancellation_status"}) :
              \A j \in Requests(c, {"cancellation_status"}) : i <= j].arg

\* C32: cancel_payment sends the cancellation request only when Session
\* State's validation_approach is NONE and the status the bank reports is
\* PDNG or ACSP; with validation_approach NONE it fails with
\* ALREADY_CANCELLED when the status is RJCT or CANC and with NOT_CANCELLABLE
\* for any other status, without sending the request; a call that sent the
\* request and ended with an interaction leaves an approach other than NONE,
\* so that the later calls of the flow send no second request.
C32_CancellationRequest ==
    [][PastChecks =>
          /\ Cardinality(CancelRequests(last')) <= 1
          /\ CancelRequests(last') # {} =>
                /\ st.validation_approach = "NONE"
                /\ StatusChecked(last')
                /\ FirstStatus(last') \in {"PDNG", "ACSP"}
          /\ (/\ st.validation_approach = "NONE"
              /\ StatusChecked(last')
              /\ FirstStatus(last') \in {"RJCT", "CANC"}) =>
                /\ last'.out = Exc("PaymentCancellationError", "ALREADY_CANCELLED", "")
                /\ CancelRequests(last') = {}
          /\ (/\ st.validation_approach = "NONE"
              /\ StatusChecked(last')
              /\ FirstStatus(last') \notin {"RJCT", "CANC", "PDNG", "ACSP"}) =>
                /\ last'.out = Exc("PaymentCancellationError", "NOT_CANCELLABLE", "")
                /\ CancelRequests(last') = {}
          /\ (CancelRequests(last') # {} /\ last'.out.type \in Interactions) =>
                st'.validation_approach # "NONE"]_vars

\* A cancel_payment call found the status ACSP, sent the cancellation
\* request and asked for the PSU's redirection.
C32_Witness ==
    /\ last.op = "cancel_payment"
    /\ last.out.type = "PaymentRedirect"
    /\ StatusChecked(last)
    /\ FirstStatus(last) = "ACSP"
    /\ CancelRequests(last) # {}
    /\ st.validation_approach = "REDIRECT"

-----------------------------------------------------------------------------
(* The confirmation of the SIMPLE flow, asked for by a status check.       *)

\* check_payment_during_creation has just raised interaction-skipped on a
\* status that requires a confirmation, in a validation by redirect, and
\* create_and_validate_payment is called next, on the same instance and so
\* on the same status.
CalledAfterSkip ==
    /\ cfg.VALIDATION_REDIRECT_FLOW = "SIMPLE"
    /\ st.validation_approach = "REDIRECT"
    /\ last.op = "check_payment_during_creation"
    /\ last.out = Skipped
    /\ NeedsConfirmation(page.status, st)
    /\ last'.op = "create_and_validate_payment"
    /\ last'.conf.confirm = NONE

\* C33: in the SIMPLE flow, after check_payment_during_creation has raised
\* interaction-skipped because the status requires a confirmation, the next
\* create_and_validate_payment call raises confirmation-required and sets
\* validation_confirmation_required, whatever the callback: absent, the
\* skipped value or a URL.
C33_ConfirmationAsked ==
    [][CalledAfterSkip =>
          /\ last'.out.type = "PaymentConfirmationRequired"
          /\ st'.validation_confirmation_required]_vars

-----------------------------------------------------------------------------
(* The token a confirmation request is sent with.  A token is modelled by  *)
(* the grant it was obtained with.                                         *)

ConfirmedWith(c) == {c.log[i].arg : i \in Requests(c, {"confirm"})}

\* C34: in a cancellation with flow OAUTH_AUTHORISATION_CODE, when Session
\* State holds the token obtained by exchanging the callback's
\* authorization code and the caller confirms, the confirmation request is
\* sent with that token.
C34_CancellationConfirmedWithCodeToken ==
    [][(/\ Cancelled
        /\ cfg.CANCELLATION_REDIRECT_FLOW = "OAUTH_AUTHORISATION_CODE"
        /\ st.validation_approach = "REDIRECT"
        /\ st.oauth_token = "authorization_code"
        /\ last'.conf.confirm = "true") =>
          ConfirmedWith(last') \subseteq {"authorization_code"}]_vars

-----------------------------------------------------------------------------
(* A validation with an authorization code, its token expired or refused   *)
(* by the bank between the exchange and the confirmation.                  *)

ConfigsConfirm ==
    {[DefaultConfig EXCEPT !.VALIDATION_REDIRECT_FLOW = "OAUTH_AUTHORISATION_CODE"],
     [DefaultConfig EXCEPT !.VALIDATION_REDIRECT_FLOW =
                               "OAUTH_AUTHORISATION_CODE_WITHOUT_CONFIRMATION",
                           !.UNSAFE_CONFIRMATIONS = TRUE]}

ScopeConfirm ==
    [ScopePreStep EXCEPT !.ttls = {NoTime, 0},
                         !.refresh_tokens = {NONE},
                         !.confirms = {NONE, "true"},
                         !.token_errors = {400},
                         !.api_errors = {403},
                         !.statuses = {<<"ACTC", NONE>>, <<"ACSC", NONE>>}]

InitConfirm == InitWith(ConfigsConfirm)

NextConfirm ==
    \/ CreateAndValidatePayment(ScopeConfirm)
    \/ Respond(ScopeConfirm)
    \/ BankStep(ScopeConfirm)
    \/ Restart

SpecConfirm == InitConfirm /\ [][NextConfirm]_vars

\* Session State holds the token of the authorization-code exchange, and
\* the caller confirms the validation.
ConfirmsWithCodeToken ==
    /\ last'.op = "create_and_validate_payment"
    /\ cfg.VALIDATION_REDIRECT_FLOW = "OAUTH_AUTHORISATION_CODE"
    /\ st.validation_approach = "REDIRECT"
    /\ st.oauth_token = "authorization_code"
    /\ last'.conf.confirm = "true"

\* C35: in a validation with flow OAUTH_AUTHORISATION_CODE, the explicit
\* confirmation request is sent with the token of the authorization-code
\* exchange held in Session State, never with a client-credentials token
\* that check_pre_step or the retry on a stale token put in its place.
C35_ValidationConfirmedWithCodeToken ==
    [][ConfirmsWithCodeToken =>
          ConfirmedWith(last') \subseteq {"authorization_code"}]_vars

\* The same, for the calls in which the token is not expired and the bank
\* refuses no request.
C35_WithoutExpiryOrRefusal ==
    [][(/\ ConfirmsWithCodeToken
        /\ ValidToken(st)
        /\ \A i \in DOMAIN last'.log : last'.log[i].http \in {0, 200}) =>
          ConfirmedWith(last') \subseteq {"authorization_code"}]_vars

-----------------------------------------------------------------------------
(* What validation_confirmed stands for.                                   *)

\* The call sent a confirmation request or exchanged an authorization code.
ConfirmedOrExchanged(c) == Requests(c, {"confirm", "code"}) # {}

\* C36: validation_confirmed becomes true only in a call that sends a
\* confirmation request or exchanges an authorization code, when no earlier
\* call of the validation has done so (no authorization code is recorded
\* and the flag is false).
C36_ConfirmedByRequest ==
    [][(/\ ~st.validation_confirmed
        /\ st'.validation_confirmed
        /\ st.oauth_authorisation_code = NONE) =>
          ConfirmedOrExchanged(last')]_vars

-----------------------------------------------------------------------------
(* The end of a frozen failure.                                            *)

NoRecord == [code |-> NONE, msg |-> NONE]

\* The call raised a validation or cancellation failure to its caller, or
\* ran reset_validation.
RaisedOrReset(c) ==
    \/ c.out.type \in {"PaymentValidationError", "PaymentCancellationError"}
    \/ Requests(c, {"reset_validation"}) # {}

\* C37: a call made with a failure frozen in Session State that raises the
\* failure to its caller, or that runs reset_validation, leaves
\* first_failure_at and the frozen code and message cleared.
C37_FrozenFailureCleared ==
    [][(Frozen /\ last'.op # "none" /\ RaisedOrReset(last')) =>
          /\ st'.first_failure_at = NoTime
          /\ st'.first_failure_validation_data = NoRecord
          /\ st'.first_failure_cancellation_data = NoRecord]_vars

-----------------------------------------------------------------------------
(* A token request that fails during an explicit confirmation.             *)

\* The caller confirms while Session State holds a stashed authorization
\* code still to be exchanged, and the token endpoint refuses the exchange.
ExchangeFailed ==
    /\ last'.op = "create_and_validate_payment"
    /\ last'.conf.confirm = "true"
    /\ st.validation_approach = "REDIRECT"
    /\ st.oauth_token_to_be_requested
    /\ st.oauth_authorisation_code # NONE
    /\ \E i \in Requests(last', {"token"}) :
          /\ last'.log[i].arg = "authorization_code"
          /\ last'.log[i].http # 200

\* C38: if the token request made during an explicit confirmation fails,
\* the error propagates and Session State is as before the call, with
\* oauth_token_to_be_requested still true.
C38_ExchangeFailureKeepsState ==
    [][ExchangeFailed =>
          /\ last'.out.type \in ClientErrors
          /\ st'.oauth_token_to_be_requested
          /\ NonToken(st') = NonToken(st)]_vars

\* The error does propagate.
C38_ExchangeFailurePropagates ==
    [][ExchangeFailed => last'.out.type \in ClientErrors]_vars

-----------------------------------------------------------------------------
(* A cancellation asked for while Session State still carries the approach *)
(* of a validation.                                                        *)

\* cancel_payment passed its up-front checks and found the payment in a
\* status that can be cancelled.
FoundCancellable ==
    /\ PastChecks
    /\ StatusChecked(last')
    /\ FirstStatus(last') \in {"PDNG", "ACSP"}

\* C39: whenever cancel_payment passes its up-front checks on a payment the
\* bank reports as PDNG or ACSP, and no cancellation request has been sent
\* yet, it sends the cancellation request, whatever Session State holds.  In
\* SpecDelay the bank answers a cancellation request with the approach NONE,
\* so a Session State with the approach REDIRECT is that of a validation and
\* no cancellation request has been sent for the payment.
C39_CancellationRequested ==
    [][FoundCancellable => CancelRequests(last') # {}]_vars

\* The same, when Session State holds no validation approach.
C39_RequestedWithoutApproach ==
    [][(FoundCancellable /\ st.validation_approach = "NONE") =>
          CancelRequests(last') # {}]_vars

-----------------------------------------------------------------------------
(* Liveness of the validation.  The caller keeps calling                   *)
(* create_and_validate_payment, the bank answers every request and time    *)
(* passes; nothing says that the caller sets up a new instance.            *)

ConfigsLive ==
    {[DefaultConfig EXCEPT !.VALIDATION_REDIRECT_FLOW = f,
                           !.UNSAFE_URL_ERROR_DETECTION = d] :
        f \in RedirectFlows \cup OAuthFlows, d \in BOOLEAN}

ScopeLive ==
    [ScopeFlows EXCEPT !.statuses = {<<"ACTC", NONE>>, <<"ACSC", NONE>>,
                                     <<"RJCT", "AC01">>},
                       !.callbacks = {NoCallback, SKIPPED,
                                      Url("c1", "f1", NONE, NONE, NONE)}]

InitLive == InitWith(ConfigsLive)

NextLive ==
    \/ CreateAndValidatePayment(ScopeLive)
    \/ Respond(ScopeLive)
    \/ BankStep(ScopeLive)
    \/ Tick
    \/ Restart

\* A call of create_and_validate_payment has just ended.
Called == last.op = "create_and_validate_payment"

\* Time passes as long as the clock allows, and again and again a call of
\* create_and_validate_payment ends: the caller keeps calling and the bank
\* answers every request of a call.  (Weak fairness of the call and of the
\* answer gives exactly this, every other step leaving last = NoCall.)
SpecLive ==
    /\ InitLive
    /\ [][NextLive]_vars
    /\ SF_vars(Tick)
    /\ []<>Called

\* The same caller, who again and again hands Session State to a new
\* instance.
SpecLiveRestart == SpecLive /\ SF_vars(Restart)

\* The bank reports the created payment as executed, a status the decoder
\* takes as finished in every flow, and no failure is frozen.
Executed == pay.id # NoId /\ bank.status = "ACSC" /\ ~Frozen

\* create_and_validate_payment returned normally, Session State reset.
Validated ==
    /\ last.op = "create_and_validate_payment"
    /\ last.out = OK
    /\ ValidationsCleared(st)

\* create_and_validate_payment raised the validation failure.
Failed ==
    /\ last.op = "create_and_validate_payment"
    /\ last.out.type = "PaymentValidationError"

\* The timeout of a frozen failure elapses before the clock stops.
Elapses ==
    /\ Frozen
    /\ \/ cfg.VALIDATION_FAILURE_CALLBACK_DETECTION_TIMEOUT = NoTime
       \/ st.first_failure_at
              + cfg.VALIDATION_FAILURE_CALLBACK_DETECTION_TIMEOUT <= MaxTime

\* C40: if from some point on the bank reports a finished status, every
\* request succeeds and no failure is frozen, a caller that keeps calling
\* create_and_validate_payment on the created payment eventually gets a
\* normal return with Session State reset; if a failure is frozen, it
\* eventually gets the validation failure once the timeout has elapsed.
C40_ValidationEnds ==
    /\ Executed ~> (Validated \/ ~Executed)
    /\ Elapses ~> Failed

\* The part about a frozen failure.
C40_FrozenFailureRaised == Elapses ~> Failed

\* The part about a finished status.
C40_ExecutedReturns == Executed ~> (Validated \/ ~Executed)

====
